---- MODULE Spec2Model ----
(***************************************************************************)
(* Task board: the board reducer (app/board page), the task helpers        *)
(* (lib/task-utils.ts) and the persistence gateway (lib/storage.ts).       *)
(*                                                                         *)
(* Strings of the program are strings here.  A JSON value read back from   *)
(* localStorage is a tagged record (t = "string", "number", "boolean",     *)
(* "null", "undefined", "array", "object"), so that the typeof tests of    *)
(* the sanitizers are tests on the tag.  Points in time are ISO strings;   *)
(* new Date(s).getTime() is the table DateGetTime.                         *)
(***************************************************************************)
EXTENDS Integers, Sequences, FiniteSets, TLC

VARIABLES
    state,      \* the BoardState held by useReducer
    storage,    \* localStorage: the items under the primary and the backup key
    uuid,       \* how many crypto.randomUUID() values have been drawn
    clock,      \* the reading of the clock, as an index of ClockTicks
    page,       \* the page: [mounted, formError]
    editDraft,  \* the edit modal: [open, draft]
    last,       \* the action object of the latest dispatch
    budget,     \* dispatches made so far, by kind: [creates, others]
    call,       \* arguments of the latest call of a task helper
    result      \* what that call returned

vars == <<state, storage, uuid, clock, page, editDraft, last, budget, call, result>>

----------------------------------------------------------------------------
(* Bounds of the model *)

\* handlers run in one run of the page
MaxSteps == 2
\* actions dispatched to the reducer in one run
MaxDispatches == 2
\* dispatches other than create in a run that fills the activity log
MaxOthers == 1
\* length of a task list handed to a task helper
MaxLen == 3

----------------------------------------------------------------------------
(* lib/types.ts, lib/constants.ts *)

COLUMN_ORDER == <<"todo", "doing", "done">>

TaskStatus == {COLUMN_ORDER[i] : i \in 1..Len(COLUMN_ORDER)}

TaskPriority == {"low", "medium", "high"}

ACTIVITY_LIMIT == 20

\* the value of an absent optional property (ActivityItem.details)
undefined == "\\undefined"

----------------------------------------------------------------------------
(* Sequences *)

Min(a, b) == IF a < b THEN a ELSE b

\* Array.prototype.slice(0, n)
Slice(s, n) == SubSeq(s, 1, Min(Len(s), n))

\* Array.prototype.map
Map(s, F(_)) == [i \in 1..Len(s) |-> F(s[i])]

\* Array.prototype.find: the first element satisfying P, as a sequence of
\* length 0 (undefined) or 1
Find(s, P(_)) ==
    LET hits == SelectSeq(s, P) IN IF hits = <<>> THEN <<>> ELSE <<hits[1]>>

Range(s) == {s[i] : i \in 1..Len(s)}

----------------------------------------------------------------------------
(* Strings and dates *)

\* a variant that removes nothing
Trim_Nothing(s) == s

\* String.prototype.trim on the strings of the model
Trim(s) ==
    CASE s = "  " -> ""
      [] s = " Write docs " -> "Write docs"
      [] s = " Intern@Demo.com " -> "Intern@Demo.com"
      [] s = " intern123 " -> "intern123"
      [] OTHER -> s

\* s has t as a substring
Contains(s, t) == \E i \in 0..(Len(s) - Len(t)) : SubSeq(s, i + 1, i + Len(t)) = t

\* String.prototype.startsWith
StartsWith(s, prefix) == Len(s) >= Len(prefix) /\ SubSeq(s, 1, Len(prefix)) = prefix

\* String.prototype.slice(0, end)
SliceString(s, end) == SubSeq(s, 1, Min(Len(s), end))

\* String.prototype.toUpperCase on the strings of the model
ToUpperCase(s) ==
    CASE s = "todo" -> "TODO"
      [] s = "doing" -> "DOING"
      [] s = "done" -> "DONE"
      [] OTHER -> s

\* IEEE numbers as far as the program uses them
Num(n) == [k |-> "num", n |-> n]
NaN == [k |-> "nan"]
Infinity == [k |-> "inf"]

\* new Date(s).getTime(), in hours since the epoch; NaN for a string that is
\* no date
DateGetTime(s) ==
    CASE s = "1970-01-01T00:00:00.000Z" -> Num(0)
      [] s = "2026-02-09T10:00:00.000Z" -> Num(491842)
      [] s = "2026-02-10T09:00:00.000Z" -> Num(491865)
      [] s = "2026-02-10T10:00:00.000Z" -> Num(491866)
      [] s = "2026-02-18" -> Num(492048)
      [] s = "2026-02-20" -> Num(492096)
      [] OTHER -> NaN

\* new Date(0).toISOString()
EpochIso == "1970-01-01T00:00:00.000Z"

\* the values new Date().toISOString() takes, in turn, while the page runs
ClockTicks == <<"2026-02-10T09:00:00.000Z", "2026-02-10T10:00:00.000Z">>

\* crypto.randomUUID(): the n-th value drawn; all values differ
randomUUID(n) == "uuid-" \o ToString(n)

\* Math.random().toString(36).slice(2) in sanitizeTask: one draw for each
\* element of a stored task array; the draws are taken to differ
randomId(key, i) == "rnd-" \o key \o "-" \o ToString(i)

----------------------------------------------------------------------------
(* JSON values *)

JStr(s) == [t |-> "string", s |-> s]
JNum(n) == [t |-> "number", n |-> n]
JBool(b) == [t |-> "boolean", b |-> b]
JNull == [t |-> "null"]
JUndef == [t |-> "undefined"]
JArr(a) == [t |-> "array", a |-> a]
JObj(o) == [t |-> "object", o |-> o]

\* property access v[k]; a property that is absent, or any property of a
\* primitive, reads as undefined
Get(v, k) == IF v.t = "object" /\ k \in DOMAIN v.o THEN v.o[k] ELSE JUndef

\* typeof v === "object" && v !== null
IsObject(v) == v.t \in {"object", "array"}

IsString(v) == v.t = "string"

----------------------------------------------------------------------------
(* lib/storage.ts: sanitizers *)

\* a variant that keeps whatever string was stored
normalizeStatus_KeepsStored(value) ==
    IF IsString(value) THEN value.s ELSE "todo"

normalizeStatus(value) ==
    IF IsString(value) /\ value.s \in {"todo", "doing", "done"} THEN value.s ELSE "todo"

normalizePriority(value) ==
    IF IsString(value) /\ value.s \in {"high", "medium", "low"} THEN value.s ELSE "medium"

\* rnd is the draw of Math.random, now the reading of the clock
sanitizeTask(task, rnd, now) ==
    [id |-> IF IsString(Get(task, "id")) THEN Get(task, "id").s ELSE rnd,
     project |-> IF IsString(Get(task, "project")) /\ Trim(Get(task, "project").s) # ""
                 THEN Get(task, "project").s ELSE "General",
     title |-> IF IsString(Get(task, "title")) THEN Get(task, "title").s ELSE "Untitled Task",
     description |-> IF IsString(Get(task, "description")) THEN Get(task, "description").s ELSE "",
     priority |-> normalizePriority(Get(task, "priority")),
     dueDate |-> IF IsString(Get(task, "dueDate")) THEN Get(task, "dueDate").s ELSE "",
     tags |-> IF Get(task, "tags").t = "array"
              THEN Map(SelectSeq(Get(task, "tags").a, IsString), LAMBDA tag : tag.s)
              ELSE <<>>,
     status |-> normalizeStatus(Get(task, "status")),
     createdAt |-> IF IsString(Get(task, "createdAt")) THEN Get(task, "createdAt").s ELSE now,
     favorite |-> IF Get(task, "favorite").t = "boolean" THEN Get(task, "favorite").b ELSE FALSE]

\* reading a property of null raises a TypeError (task.id in sanitizeTask)
sanitizeTaskThrows(task) == task.t \in {"null", "undefined"}

ActivityActions ==
    {"created", "edited", "moved", "deleted", "favorited", "message", "document"}

\* the type guard of sanitizeActivity
IsActivityItem(item) ==
    /\ IsObject(item)
    /\ IsString(Get(item, "id"))
    /\ IsString(Get(item, "taskTitle"))
    /\ IsString(Get(item, "timestamp"))
    /\ IsString(Get(item, "action"))
    /\ Get(item, "action").s \in ActivityActions

\* an element that passed the guard, as the ActivityItem it is used as
\* (details is a string or absent in every snapshot of the model)
AsActivityItem(item) ==
    [id |-> Get(item, "id").s,
     action |-> Get(item, "action").s,
     taskTitle |-> Get(item, "taskTitle").s,
     timestamp |-> Get(item, "timestamp").s,
     details |-> IF IsString(Get(item, "details")) THEN Get(item, "details").s ELSE undefined]

sanitizeActivity(activity) ==
    IF activity.t # "array" THEN <<>>
    ELSE Map(SelectSeq(activity.a, IsActivityItem), AsActivityItem)

IsChatMessage(item) ==
    /\ IsObject(item)
    /\ IsString(Get(item, "id"))
    /\ IsString(Get(item, "text"))
    /\ IsString(Get(item, "timestamp"))
    /\ IsString(Get(item, "sender"))
    /\ Get(item, "sender").s \in {"me", "teammate"}

AsChatMessage(item) ==
    [id |-> Get(item, "id").s,
     sender |-> Get(item, "sender").s,
     text |-> Get(item, "text").s,
     timestamp |-> Get(item, "timestamp").s]

sanitizeMessages(value) ==
    IF value.t # "array" THEN <<>>
    ELSE Map(SelectSeq(value.a, IsChatMessage), AsChatMessage)

IsDocumentItem(item) ==
    /\ IsObject(item)
    /\ IsString(Get(item, "id"))
    /\ IsString(Get(item, "name"))
    /\ IsString(Get(item, "mimeType"))
    /\ Get(item, "size").t = "number"
    /\ IsString(Get(item, "uploadedAt"))
    /\ IsString(Get(item, "dataUrl"))

AsDocumentItem(item) ==
    [id |-> Get(item, "id").s,
     name |-> Get(item, "name").s,
     mimeType |-> Get(item, "mimeType").s,
     size |-> Get(item, "size").n,
     uploadedAt |-> Get(item, "uploadedAt").s,
     dataUrl |-> Get(item, "dataUrl").s]

sanitizeDocuments(value) ==
    IF value.t # "array" THEN <<>>
    ELSE Map(SelectSeq(value.a, IsDocumentItem), AsDocumentItem)

DefaultSettings == [compactCards |-> FALSE, showCompleted |-> TRUE, accent |-> "teal"]

\* a variant that ignores what was stored
sanitizeSettings_Defaults(value) == DefaultSettings

sanitizeSettings(value) ==
    IF ~IsObject(value) THEN DefaultSettings
    ELSE [compactCards |-> IF Get(value, "compactCards").t = "boolean"
                           THEN Get(value, "compactCards").b ELSE FALSE,
          showCompleted |-> IF Get(value, "showCompleted").t = "boolean"
                            THEN Get(value, "showCompleted").b ELSE TRUE,
          accent |-> IF IsString(Get(value, "accent"))
                        /\ Get(value, "accent").s \in {"blue", "orange", "teal"}
                     THEN Get(value, "accent").s ELSE "teal"]

emptyBoardState ==
    [tasks |-> <<>>, activity |-> <<>>, messages |-> <<>>, documents |-> <<>>,
     settings |-> DefaultSettings]

\* key names the storage key read, so that the draws of Math.random differ
sanitizeBoardState(raw, key, now) ==
    IF ~IsObject(raw) THEN emptyBoardState
    ELSE [tasks |-> IF Get(raw, "tasks").t = "array"
                    THEN [i \in 1..Len(Get(raw, "tasks").a) |->
                            sanitizeTask(Get(raw, "tasks").a[i], randomId(key, i), now)]
                    ELSE <<>>,
          activity |-> sanitizeActivity(Get(raw, "activity")),
          messages |-> sanitizeMessages(Get(raw, "messages")),
          documents |-> sanitizeDocuments(Get(raw, "documents")),
          settings |-> sanitizeSettings(Get(raw, "settings"))]

\* sanitizeBoardState raises when an element of tasks is null
sanitizeBoardStateThrows(raw) ==
    /\ IsObject(raw)
    /\ Get(raw, "tasks").t = "array"
    /\ \E i \in 1..Len(Get(raw, "tasks").a) : sanitizeTaskThrows(Get(raw, "tasks").a[i])

----------------------------------------------------------------------------
(* IEEE arithmetic of the comparators *)

NegInfinity == [k |-> "ninf"]

\* x - y
Minus(x, y) ==
    CASE x.k = "nan" \/ y.k = "nan" -> NaN
      [] x.k = "num" /\ y.k = "num" -> Num(x.n - y.n)
      [] x.k = y.k -> NaN
      [] x.k = "inf" \/ y.k = "ninf" -> Infinity
      [] OTHER -> NegInfinity

\* x > 0 and x < 0; both are false of NaN
IsPositive(x) == x.k = "inf" \/ (x.k = "num" /\ x.n > 0)
IsNegative(x) == x.k = "ninf" \/ (x.k = "num" /\ x.n < 0)

\* Array.prototype.sort(cmp): stable; an element is moved in front of the
\* elements that compare greater than it (insertion, as the engines sort short
\* arrays), which is the one stable order when cmp is a consistent comparator.
\* cmp is the comparator tabulated on the pairs of elements of the array.
RECURSIVE InsertSorted(_, _, _)
InsertSorted(sorted, x, cmp) ==
    IF sorted # <<>> /\ IsPositive(cmp[<<sorted[Len(sorted)], x>>])
    THEN Append(InsertSorted(SubSeq(sorted, 1, Len(sorted) - 1), x, cmp), sorted[Len(sorted)])
    ELSE Append(sorted, x)

RECURSIVE SortBy(_, _)
SortBy(s, cmp) ==
    IF s = <<>> THEN <<>>
    ELSE InsertSorted(SortBy(SubSeq(s, 1, Len(s) - 1), cmp), s[Len(s)], cmp)

Sort(s, Compare(_, _)) ==
    SortBy(s, [p \in Range(s) \X Range(s) |-> Compare(p[1], p[2])])

----------------------------------------------------------------------------
(* lib/storage.ts: the persisted snapshot *)

\* JSON.stringify of the entities; a property whose value is undefined is
\* left out
TaskToJson(task) ==
    JObj([id |-> JStr(task.id), project |-> JStr(task.project), title |-> JStr(task.title),
          description |-> JStr(task.description), priority |-> JStr(task.priority),
          dueDate |-> JStr(task.dueDate), tags |-> JArr(Map(task.tags, JStr)),
          status |-> JStr(task.status), createdAt |-> JStr(task.createdAt),
          favorite |-> JBool(task.favorite)])

ActivityToJson(item) ==
    IF item.details = undefined
    THEN JObj([id |-> JStr(item.id), action |-> JStr(item.action),
               taskTitle |-> JStr(item.taskTitle), timestamp |-> JStr(item.timestamp)])
    ELSE JObj([id |-> JStr(item.id), action |-> JStr(item.action),
               taskTitle |-> JStr(item.taskTitle), timestamp |-> JStr(item.timestamp),
               details |-> JStr(item.details)])

MessageToJson(msg) ==
    JObj([id |-> JStr(msg.id), sender |-> JStr(msg.sender), text |-> JStr(msg.text),
          timestamp |-> JStr(msg.timestamp)])

DocumentToJson(doc) ==
    JObj([id |-> JStr(doc.id), name |-> JStr(doc.name), mimeType |-> JStr(doc.mimeType),
          size |-> JNum(doc.size), uploadedAt |-> JStr(doc.uploadedAt),
          dataUrl |-> JStr(doc.dataUrl)])

SettingsToJson(settings) ==
    JObj([compactCards |-> JBool(settings.compactCards),
          showCompleted |-> JBool(settings.showCompleted),
          accent |-> JStr(settings.accent)])

BoardStateToJson(s) ==
    JObj([tasks |-> JArr(Map(s.tasks, TaskToJson)),
          activity |-> JArr(Map(s.activity, ActivityToJson)),
          messages |-> JArr(Map(s.messages, MessageToJson)),
          documents |-> JArr(Map(s.documents, DocumentToJson)),
          settings |-> SettingsToJson(s.settings)])

\* what localStorage.getItem returns: null, a text that is no JSON, or a JSON
\* text, held as the value JSON.parse makes of it
NoItem == [k |-> "none"]
Garbage == [k |-> "garbage"]
JsonText(v) == [k |-> "text", json |-> v]

\* the PersistedBoardPayload read from one key, as a sequence of length 0
\* (null) or 1
parsePersistedBoard(raw, key, now) ==
    IF raw.k # "text" THEN <<>>
    ELSE LET parsed == raw.json IN
         IF parsed.t = "object" /\ "state" \in DOMAIN parsed.o
         THEN IF sanitizeBoardStateThrows(Get(parsed, "state")) THEN <<>>
              ELSE << [version |-> IF Get(parsed, "version").t = "number"
                                   THEN Get(parsed, "version").n ELSE 1,
                       updatedAt |-> IF IsString(Get(parsed, "updatedAt"))
                                     THEN Get(parsed, "updatedAt").s ELSE EpochIso,
                       state |-> sanitizeBoardState(Get(parsed, "state"), key, now)] >>
         ELSE IF sanitizeBoardStateThrows(parsed) THEN <<>>
              ELSE << [version |-> 1, updatedAt |-> EpochIso,
                       state |-> sanitizeBoardState(parsed, key, now)] >>

\* a variant that compares the dates only
CompareCandidates_ByDateOnly(a, b) ==
    Minus(DateGetTime(b.updatedAt), DateGetTime(a.updatedAt))

\* the comparator of loadBoardState
CompareCandidates(a, b) ==
    IF Len(b.state.tasks) # Len(a.state.tasks)
    THEN Num(Len(b.state.tasks) - Len(a.state.tasks))
    ELSE Minus(DateGetTime(b.updatedAt), DateGetTime(a.updatedAt))

loadBoardState(store, now) ==
    LET main == parsePersistedBoard(store.main, "main", now)
        backup == parsePersistedBoard(store.backup, "backup", now)
        candidates == main \o backup
    IN  IF candidates = <<>> THEN emptyBoardState
        ELSE Sort(candidates, CompareCandidates)[1].state

\* localStorage.setItem can raise (quota, storage disabled): at the first
\* write, at the second one, or not at all
WriteOutcomes == {"ok", "none", "main-only"}

\* saveBoardState(s): the storage afterwards
saveBoardState(store, s, now, outcome) ==
    LET serialized ==
            JsonText(JObj([version |-> JNum(2), updatedAt |-> JStr(now),
                           state |-> BoardStateToJson(s)]))
    IN  CASE outcome = "ok" -> [main |-> serialized, backup |-> serialized]
          [] outcome = "main-only" -> [main |-> serialized, backup |-> store.backup]
          [] OTHER -> store

----------------------------------------------------------------------------
(* lib/task-utils.ts *)

\* a === b on numbers
StrictEq(x, y) == x.k # "nan" /\ x = y

\* a variant whose tie-break follows the direction
compareDueDates_TiesByDirection(a, b, dir) ==
    LET aTime == IF a.dueDate # "" THEN DateGetTime(a.dueDate) ELSE Infinity
        bTime == IF b.dueDate # "" THEN DateGetTime(b.dueDate) ELSE Infinity
    IN  IF StrictEq(aTime, bTime)
        THEN IF dir = "asc"
             THEN Minus(DateGetTime(a.createdAt), DateGetTime(b.createdAt))
             ELSE Minus(DateGetTime(b.createdAt), DateGetTime(a.createdAt))
        ELSE IF dir = "asc" THEN Minus(aTime, bTime) ELSE Minus(bTime, aTime)

compareDueDates(a, b, dir) ==
    LET aTime == IF a.dueDate # "" THEN DateGetTime(a.dueDate) ELSE Infinity
        bTime == IF b.dueDate # "" THEN DateGetTime(b.dueDate) ELSE Infinity
    IN  IF StrictEq(aTime, bTime)
        THEN Minus(DateGetTime(a.createdAt), DateGetTime(b.createdAt))
        ELSE IF dir = "asc" THEN Minus(aTime, bTime) ELSE Minus(bTime, aTime)

\* String.prototype.toLowerCase on the strings of the model
ToLowerCase(s) ==
    CASE s = "Write docs" -> "write docs"
      [] s = "Fix bug" -> "fix bug"
      [] s = "Design board" -> "design board"
      [] s = "DOCS" -> "docs"
      [] s = "Update docs" -> "update docs"
      [] s = "Intern@Demo.com" -> "intern@demo.com"
      [] OTHER -> s

\* String.prototype.includes on the lowercased strings of the model
Includes(s, term) ==
    \/ term = ""
    \/ s = term
    \/ <<s, term>> \in {<<"write docs", "docs">>, <<"design board", "design">>,
                        <<"update docs", "docs">>}

\* a variant that searches the description as well
filterAndSortTasks_AnyField(tasks, searchTerm, priority, sortDirection) ==
    LET term == ToLowerCase(Trim(searchTerm))
        Keep(task) ==
            LET matchesTitle == IF term # ""
                                THEN \/ Includes(ToLowerCase(task.title), term)
                                     \/ task.description # ""
                                ELSE TRUE
                matchesPriority == IF priority = "all" THEN TRUE ELSE task.priority = priority
            IN  matchesTitle /\ matchesPriority
    IN  Sort(SelectSeq(tasks, Keep), LAMBDA a, b : compareDueDates(a, b, sortDirection))

filterAndSortTasks(tasks, searchTerm, priority, sortDirection) ==
    LET term == ToLowerCase(Trim(searchTerm))
        Keep(task) ==
            LET matchesTitle == IF term # "" THEN Includes(ToLowerCase(task.title), term) ELSE TRUE
                matchesPriority == IF priority = "all" THEN TRUE ELSE task.priority = priority
            IN  matchesTitle /\ matchesPriority
    IN  Sort(SelectSeq(tasks, Keep), LAMBDA a, b : compareDueDates(a, b, sortDirection))

\* a variant that rebuilds the targeted task from its id alone
moveTaskStatus_DropsFields(tasks, taskId, nextStatus) ==
    Map(tasks, LAMBDA task :
        IF task.id = taskId
        THEN [task EXCEPT !.status = nextStatus, !.favorite = FALSE]
        ELSE task)

moveTaskStatus(tasks, taskId, nextStatus) ==
    Map(tasks, LAMBDA task : IF task.id = taskId THEN [task EXCEPT !.status = nextStatus] ELSE task)

----------------------------------------------------------------------------
(* app/board page: the reducer *)

initialState ==
    [tasks |-> <<>>, activity |-> <<>>, messages |-> <<>>, documents |-> <<>>,
     settings |-> [compactCards |-> FALSE, showCompleted |-> TRUE, accent |-> "teal"]]

\* a variant that records the action but not the title
makeActivity_NoTitle(action, taskTitle, details, id, now) ==
    [id |-> id, action |-> action, taskTitle |-> "", timestamp |-> now,
     details |-> details]

\* id is the value crypto.randomUUID() returns, now the reading of the clock
makeActivity(action, taskTitle, details, id, now) ==
    [id |-> id, action |-> action, taskTitle |-> taskTitle, timestamp |-> now,
     details |-> details]

\* a variant without the slice
Logged_Uncapped(s, entry) == <<entry>> \o s.activity

\* [entry, ...s.activity].slice(0, ACTIVITY_LIMIT)
Logged(s, entry) == Slice(<<entry>> \o s.activity, ACTIVITY_LIMIT)

\* a variant that puts the new task last
reduceCreate_Appends(s, a, id, now) ==
    [s EXCEPT !.tasks = Append(s.tasks, a.payload),
              !.activity = Logged(s, makeActivity("created", a.payload.title, undefined, id, now))]

reduceCreate(s, a, id, now) ==
    [s EXCEPT !.tasks = <<a.payload>> \o s.tasks,
              !.activity = Logged(s, makeActivity("created", a.payload.title, undefined, id, now))]

\* a variant that replaces the task and logs nothing
reduceEdit_Unlogged(s, a, id, now) ==
    [s EXCEPT !.tasks = Map(s.tasks, LAMBDA task : IF task.id = a.payload.id THEN a.payload ELSE task)]

reduceEdit(s, a, id, now) ==
    [s EXCEPT !.tasks = Map(s.tasks, LAMBDA task : IF task.id = a.payload.id THEN a.payload ELSE task),
              !.activity = Logged(s, makeActivity("edited", a.payload.title, undefined, id, now))]

\* a variant that logs the deletion whether or not a task was found
reduceDelete_AlwaysLogs(s, a, id, now) ==
    LET target == Find(s.tasks, LAMBDA task : task.id = a.payload.id)
    IN  [s EXCEPT !.tasks = SelectSeq(s.tasks, LAMBDA task : task.id # a.payload.id),
                  !.activity = Logged(s, makeActivity("deleted",
                                    IF target # <<>> THEN target[1].title ELSE "",
                                    undefined, id, now))]

reduceDelete(s, a, id, now) ==
    LET target == Find(s.tasks, LAMBDA task : task.id = a.payload.id)
    IN  [s EXCEPT !.tasks = SelectSeq(s.tasks, LAMBDA task : task.id # a.payload.id),
                  !.activity = IF target # <<>>
                               THEN Logged(s, makeActivity("deleted", target[1].title, undefined, id, now))
                               ELSE s.activity]

\* a variant without the comparison of the current status with the target
reduceMove_NoStatusCheck(s, a, id, now) ==
    LET current == Find(s.tasks, LAMBDA task : task.id = a.payload.id)
    IN  IF current = <<>> THEN s
        ELSE [s EXCEPT !.tasks = moveTaskStatus(s.tasks, a.payload.id, a.payload.status),
                       !.activity = Logged(s, makeActivity("moved", current[1].title,
                                        ToUpperCase(current[1].status) \o " -> "
                                            \o ToUpperCase(a.payload.status), id, now))]

reduceMove(s, a, id, now) ==
    LET current == Find(s.tasks, LAMBDA task : task.id = a.payload.id)
    IN  IF current = <<>> \/ current[1].status = a.payload.status THEN s
        ELSE [s EXCEPT !.tasks = moveTaskStatus(s.tasks, a.payload.id, a.payload.status),
                       !.activity = Logged(s, makeActivity("moved", current[1].title,
                                        ToUpperCase(current[1].status) \o " -> "
                                            \o ToUpperCase(a.payload.status), id, now))]

reduceToggleFavorite(s, a, id, now) ==
    LET current == Find(s.tasks, LAMBDA task : task.id = a.payload.id)
    IN  IF current = <<>> THEN s
        ELSE LET next == ~current[1].favorite
             IN  [s EXCEPT !.tasks = Map(s.tasks, LAMBDA task :
                                        IF task.id = a.payload.id
                                        THEN [task EXCEPT !.favorite = next] ELSE task),
                           !.activity = Logged(s, makeActivity("favorited", current[1].title,
                                            IF next THEN "Added to favorites"
                                            ELSE "Removed from favorites", id, now))]

\* a variant that puts the new message first
reduceAddMessage_Prepends(s, a, id, now) ==
    [s EXCEPT !.messages = <<a.payload>> \o s.messages,
              !.activity = Logged(s, makeActivity("message",
                                IF a.payload.sender = "me" THEN "You" ELSE "Teammate",
                                a.payload.text, id, now))]

\* a variant that leaves the activity log alone
reduceAddMessage_KeepsLog(s, a, id, now) ==
    [s EXCEPT !.messages = Append(s.messages, a.payload)]

reduceAddMessage(s, a, id, now) ==
    [s EXCEPT !.messages = Append(s.messages, a.payload),
              !.activity = Logged(s, makeActivity("message",
                                IF a.payload.sender = "me" THEN "You" ELSE "Teammate",
                                a.payload.text, id, now))]

reduceAddDocument(s, a, id, now) ==
    [s EXCEPT !.documents = <<a.payload>> \o s.documents,
              !.activity = Logged(s, makeActivity("document", a.payload.name,
                                "Document uploaded", id, now))]

\* {...state.settings, ...action.payload}: the keys of the partial win
\* a variant that starts from the default settings
reduceUpdateSettings_FromDefaults(s, a) ==
    [s EXCEPT !.settings = [key \in DOMAIN s.settings |->
                              IF key \in DOMAIN a.payload THEN a.payload[key]
                              ELSE initialState.settings[key]]]

reduceUpdateSettings(s, a) ==
    [s EXCEPT !.settings = [key \in DOMAIN s.settings |->
                              IF key \in DOMAIN a.payload THEN a.payload[key]
                              ELSE s.settings[key]]]

\* a variant that goes back to the initial state
reduceReset_Everything(s) == initialState

reduceReset(s) == [s EXCEPT !.tasks = <<>>, !.activity = <<>>]

boardReducer(s, a, id, now) ==
    CASE a.type = "load" -> a.payload
      [] a.type = "create" -> reduceCreate(s, a, id, now)
      [] a.type = "edit" -> reduceEdit(s, a, id, now)
      [] a.type = "delete" -> reduceDelete(s, a, id, now)
      [] a.type = "move" -> reduceMove(s, a, id, now)
      [] a.type = "toggleFavorite" -> reduceToggleFavorite(s, a, id, now)
      [] a.type = "clearActivity" -> [s EXCEPT !.activity = <<>>]
      [] a.type = "removeActivity" ->
            [s EXCEPT !.activity = SelectSeq(s.activity, LAMBDA item : item.id # a.payload.id)]
      [] a.type = "addMessage" -> reduceAddMessage(s, a, id, now)
      [] a.type = "addDocument" -> reduceAddDocument(s, a, id, now)
      [] a.type = "removeDocument" ->
            [s EXCEPT !.documents = SelectSeq(s.documents, LAMBDA doc : doc.id # a.payload.id)]
      [] a.type = "updateSettings" -> reduceUpdateSettings(s, a)
      [] a.type = "reset" -> reduceReset(s)
      [] OTHER -> s

----------------------------------------------------------------------------
(* What localStorage can hold when the page starts: snapshots written by an
   earlier run of the page, and content the page did not write *)

StoredTask1 ==
    JObj([id |-> JStr("1"), project |-> JStr("General"), title |-> JStr("Write docs"),
          description |-> JStr(""), priority |-> JStr("high"), dueDate |-> JStr("2026-02-20"),
          tags |-> JArr(<<>>), status |-> JStr("todo"),
          createdAt |-> JStr("2026-02-10T10:00:00.000Z"), favorite |-> JBool(FALSE)])

StoredTask2 ==
    JObj([id |-> JStr("2"), project |-> JStr("Development"), title |-> JStr("Fix bug"),
          description |-> JStr(""), priority |-> JStr("medium"), dueDate |-> JStr(""),
          tags |-> JArr(<<JStr("meeting")>>), status |-> JStr("doing"),
          createdAt |-> JStr("2026-02-10T09:00:00.000Z"), favorite |-> JBool(FALSE)])

\* a second task stored under the id of StoredTask1
StoredTask1Again ==
    JObj([id |-> JStr("1"), project |-> JStr("Design"), title |-> JStr("Design board"),
          description |-> JStr(""), priority |-> JStr("high"), dueDate |-> JStr("2026-02-18"),
          tags |-> JArr(<<>>), status |-> JStr("done"),
          createdAt |-> JStr("2026-02-09T10:00:00.000Z"), favorite |-> JBool(TRUE)])

\* a task without id, createdAt and favorite, with a blank project, an unknown
\* status and priority, and tags that are not all strings
StoredTaskMalformed ==
    JObj([project |-> JStr("  "), title |-> JStr("Fix bug"), priority |-> JStr("urgent"),
          dueDate |-> JNull, tags |-> JArr(<<JStr("meeting"), JNum(7)>>),
          status |-> JStr("archived")])

\* a task whose status is absent
StoredTaskNoStatus ==
    JObj([id |-> JStr("3"), title |-> JStr("Design board"), tags |-> JStr("x"),
          favorite |-> JStr("yes")])

StoredTaskLists ==
    { <<>>, <<StoredTask1>>, <<StoredTask1, StoredTask2>>, <<StoredTask1, StoredTask1Again>>,
      <<StoredTaskMalformed, StoredTask2>>, <<StoredTaskNoStatus>>, <<StoredTask2, JNull>> }

\* the activity log of n entries an earlier run left behind, newest first
StoredActivity(n) ==
    [i \in 1..n |->
        JObj([id |-> JStr("a-" \o ToString(n + 1 - i)), action |-> JStr("created"),
              taskTitle |-> JStr("Write docs"),
              timestamp |-> JStr("2026-02-09T10:00:00.000Z")])]

StoredActivityLogs ==
    { StoredActivity(n) : n \in {1, ACTIVITY_LIMIT - 1, ACTIVITY_LIMIT, ACTIVITY_LIMIT + 1} }
    \cup { << JObj([id |-> JStr("a-1"), action |-> JStr("archived"),
                    taskTitle |-> JStr("Fix bug"),
                    timestamp |-> JStr("2026-02-09T10:00:00.000Z")]),
              JNull,
              JObj([id |-> JStr("a-2"), action |-> JStr("moved"),
                    taskTitle |-> JStr("Fix bug"),
                    timestamp |-> JStr("2026-02-09T10:00:00.000Z"),
                    details |-> JStr("TODO -> DOING")]) >> }

StoredMessage ==
    JObj([id |-> JStr("m-1"), sender |-> JStr("me"), text |-> JStr("hello"),
          timestamp |-> JStr("2026-02-09T10:00:00.000Z")])

StoredDocument ==
    JObj([id |-> JStr("d-1"), name |-> JStr("notes.txt"), mimeType |-> JStr("text/plain"),
          size |-> JNum(12), uploadedAt |-> JStr("2026-02-09T10:00:00.000Z"),
          dataUrl |-> JStr("data:text/plain;base64,bm90ZXM=")])

StoredBoard(tasks, activity) ==
    JObj([tasks |-> JArr(tasks), activity |-> JArr(activity),
          messages |-> JArr(<<StoredMessage, JObj([id |-> JStr("m-2")])>>),
          documents |-> JArr(<<StoredDocument, JStr("d-2")>>),
          settings |-> JObj([compactCards |-> JBool(TRUE), accent |-> JStr("pink")])])

\* a snapshot in the versioned format of saveBoardState
Versioned(board, updatedAt) ==
    JsonText(JObj([version |-> JNum(2), updatedAt |-> JStr(updatedAt), state |-> board]))

StoredItems ==
    { Versioned(StoredBoard(tasks, <<>>), "2026-02-09T10:00:00.000Z") : tasks \in StoredTaskLists }
    \cup { Versioned(StoredBoard(<<StoredTask1>>, log), "2026-02-09T10:00:00.000Z") :
              log \in StoredActivityLogs }
    \cup { JsonText(StoredBoard(<<StoredTask2>>, <<>>)),
           JsonText(JObj([tasks |-> JStr("none")])),
           JsonText(JNum(7)),
           Garbage,
           NoItem }

\* the two keys: the backup is absent, or holds an older snapshot
StoredSnapshots ==
    { [main |-> item, backup |-> NoItem] : item \in StoredItems }
    \cup { [main |-> item,
            backup |-> Versioned(StoredBoard(<<StoredTask1, StoredTask2>>, <<>>),
                                 "1970-01-01T00:00:00.000Z")] :
              item \in { Versioned(StoredBoard(<<StoredTask1>>, <<>>), "2026-02-09T10:00:00.000Z"),
                         Garbage } }

NoStorage == [main |-> NoItem, backup |-> NoItem]

----------------------------------------------------------------------------
(* The reducer, driven by every action object of the BoardAction type *)

emptyDraft ==
    [id |-> undefined, project |-> "General", title |-> "", description |-> "",
     priority |-> "medium", dueDate |-> "", tags |-> "", status |-> "todo"]

NoEdit == [open |-> FALSE, draft |-> emptyDraft]

\* no auth cookie, no saved sign-in
NoCookie == [set |-> FALSE]
NoAuth == [saved |-> FALSE]

\* the browser tab before the board page has mounted: the board's form error
\* and armed timers, the variant of the page and its effects not yet run, the
\* outcomes a write to this browser's storage can have, the auth cookie and the saved sign-in of the browser, the
\* path shown and the state of the sign-in form
NoPage ==
    [mounted |-> FALSE, formError |-> "", timers |-> <<>>,
     variant |-> "first", effects |-> <<>>, writes |-> {"ok"},
     cookie |-> NoCookie, authState |-> NoAuth, path |-> "/login",
     email |-> "", password |-> "", rememberMe |-> FALSE, error |-> ""]

NoCall == [fn |-> "none"]

\* new Date().toISOString()
Now == ClockTicks[clock]

\* time passes
Tick ==
    /\ clock < Len(ClockTicks)
    /\ clock' = clock + 1
    /\ UNCHANGED <<state, storage, uuid, page, editDraft, last, budget, call, result>>

\* ids an action object can name: stored ones, and one no task ever has
ActionIds == {"1", "2", "ghost"}

ActionTasks ==
    { [id |-> id, project |-> "General", title |-> "Plan sprint", description |-> "",
       priority |-> "low", dueDate |-> "2026-02-18", tags |-> <<"meeting">>,
       status |-> status, createdAt |-> "2026-02-10T09:00:00.000Z", favorite |-> favorite] :
         id \in {"1", "7"}, status \in {"todo", "done"}, favorite \in BOOLEAN }

ActionMessages ==
    { [id |-> "m-9", sender |-> sender, text |-> "hello",
       timestamp |-> "2026-02-10T09:00:00.000Z"] : sender \in {"me", "teammate"} }

ActionDocuments ==
    { [id |-> "d-9", name |-> "plan.pdf", mimeType |-> "application/pdf", size |-> 2048,
       uploadedAt |-> "2026-02-10T09:00:00.000Z", dataUrl |-> "data:application/pdf;base64,cGxhbg=="] }

ActionSettings ==
    { [compactCards |-> FALSE], [showCompleted |-> FALSE], [accent |-> "blue"] }

Steps == budget.creates + budget.others

Counted(a) ==
    IF a.type = "create" THEN [budget EXCEPT !.creates = @ + 1]
    ELSE [budget EXCEPT !.others = @ + 1]

\* dispatch(a): the reducer runs once; makeActivity, where the case calls it,
\* draws the next UUID
Dispatch(a) ==
    LET next == boardReducer(state, a, randomUUID(uuid + 1), Now)
        drew == next.activity # <<>> /\ next.activity[1].id = randomUUID(uuid + 1)
    IN  /\ state' = next
        /\ uuid' = IF drew THEN uuid + 1 ELSE uuid
        /\ last' = a
        /\ budget' = Counted(a)
        /\ UNCHANGED <<storage, clock, page, editDraft, call, result>>

DispatchLoad ==
    \E store \in StoredSnapshots :
        /\ Steps < MaxDispatches
        /\ Dispatch([type |-> "load", payload |-> loadBoardState(store, Now)])

DispatchCreate ==
    \E task \in ActionTasks :
        /\ Steps < MaxDispatches
        /\ Dispatch([type |-> "create", payload |-> task])

DispatchEdit ==
    \E task \in ActionTasks :
        /\ Steps < MaxDispatches
        /\ Dispatch([type |-> "edit", payload |-> task])

DispatchDelete ==
    \E id \in ActionIds :
        /\ Steps < MaxDispatches
        /\ Dispatch([type |-> "delete", payload |-> [id |-> id]])

DispatchMove ==
    \E id \in ActionIds, status \in TaskStatus :
        /\ Steps < MaxDispatches
        /\ Dispatch([type |-> "move", payload |-> [id |-> id, status |-> status]])

DispatchToggleFavorite ==
    \E id \in ActionIds :
        /\ Steps < MaxDispatches
        /\ Dispatch([type |-> "toggleFavorite", payload |-> [id |-> id]])

DispatchClearActivity ==
    /\ Steps < MaxDispatches
    /\ Dispatch([type |-> "clearActivity"])

DispatchRemoveActivity ==
    \E id \in {"a-1", "a-2", "ghost"} \cup {randomUUID(n) : n \in 1..uuid} :
        /\ Steps < MaxDispatches
        /\ Dispatch([type |-> "removeActivity", payload |-> [id |-> id]])

DispatchAddMessage ==
    \E msg \in ActionMessages :
        /\ Steps < MaxDispatches
        /\ Dispatch([type |-> "addMessage", payload |-> msg])

DispatchAddDocument ==
    \E doc \in ActionDocuments :
        /\ Steps < MaxDispatches
        /\ Dispatch([type |-> "addDocument", payload |-> doc])

DispatchRemoveDocument ==
    \E id \in {"d-1", "d-9", "ghost"} :
        /\ Steps < MaxDispatches
        /\ Dispatch([type |-> "removeDocument", payload |-> [id |-> id]])

DispatchUpdateSettings ==
    \E partial \in ActionSettings :
        /\ Steps < MaxDispatches
        /\ Dispatch([type |-> "updateSettings", payload |-> partial])

DispatchReset ==
    /\ Steps < MaxDispatches
    /\ Dispatch([type |-> "reset"])

InitReducer ==
    /\ state = initialState
    /\ storage = NoStorage
    /\ uuid = 0
    /\ clock = 1
    /\ page = NoPage
    /\ editDraft = NoEdit
    /\ last = [type |-> "init"]
    /\ budget = [creates |-> 0, others |-> 0]
    /\ call = NoCall
    /\ result = <<>>

NextReducer ==
    \/ Tick
    \/ DispatchLoad
    \/ DispatchCreate
    \/ DispatchEdit
    \/ DispatchDelete
    \/ DispatchMove
    \/ DispatchToggleFavorite
    \/ DispatchClearActivity
    \/ DispatchRemoveActivity
    \/ DispatchAddMessage
    \/ DispatchAddDocument
    \/ DispatchRemoveDocument
    \/ DispatchUpdateSettings
    \/ DispatchReset

SpecReducer == InitReducer /\ [][NextReducer]_vars

----------------------------------------------------------------------------
(* app/board page: the handlers of BoardPage *)

\* tags.join(", ") and tags.split(",").map(trim).filter(Boolean) on the tag lists
\* of the model
JoinTags(tags) ==
    CASE tags = <<>> -> ""
      [] tags = <<"meeting">> -> "meeting"
      [] OTHER -> "meeting, 7"

SplitTags(text) ==
    CASE text = "" -> <<>>
      [] text = "meeting" -> <<"meeting">>
      [] text = " , " -> <<>>
      [] OTHER -> <<"meeting", "7">>

toDraft(task) ==
    [id |-> task.id, project |-> task.project, title |-> task.title,
     description |-> task.description, priority |-> task.priority, dueDate |-> task.dueDate,
     tags |-> JoinTags(task.tags), status |-> task.status]

\* the route has no project (null), or names one
NoProject == "\\null"
ActiveProjects == {NoProject, "Design"}

\* a variant that never falls back
OrElse_First(a, b) == a

\* a || b on strings
OrElse(a, b) == IF a # "" THEN a ELSE b

\* id is the value crypto.randomUUID() returns when the draft has no id
buildTaskFromDraft(s, source, activeProject, id, now) ==
    LET existing == IF source.id # undefined
                    THEN Find(s.tasks, LAMBDA task : task.id = source.id) ELSE <<>>
    IN  [id |-> IF source.id # undefined THEN source.id ELSE id,
         project |-> OrElse(Trim(source.project),
                       OrElse(IF existing # <<>> THEN existing[1].project ELSE "",
                         OrElse(IF activeProject # NoProject THEN activeProject ELSE "",
                                "General"))),
         title |-> Trim(source.title),
         description |-> Trim(source.description),
         priority |-> source.priority,
         dueDate |-> source.dueDate,
         tags |-> SplitTags(source.tags),
         status |-> source.status,
         createdAt |-> IF existing # <<>> THEN existing[1].createdAt ELSE now,
         favorite |-> IF existing # <<>> THEN existing[1].favorite ELSE FALSE]

\* the reducer hands back the very object it was given
ReturnsSameState(s, a) ==
    \/ /\ a.type = "move"
       /\ LET current == Find(s.tasks, LAMBDA task : task.id = a.payload.id)
          IN  current = <<>> \/ current[1].status = a.payload.status
    \/ /\ a.type = "toggleFavorite"
       /\ Find(s.tasks, LAMBDA task : task.id = a.payload.id) = <<>>

\* the outcomes of the writes of the page
PageWrites == page.writes

\* dispatch(a), the render that runs the reducer with the UUID drawn as number
\* n, and the effect that saves the new state when it is a new object; store
\* is the storage before the effect
Effect(store, a, n) ==
    LET next == boardReducer(state, a, randomUUID(n), Now)
        drew == next.activity # <<>> /\ next.activity[1].id = randomUUID(n)
    IN  /\ state' = next
        /\ uuid' = IF drew THEN n ELSE n - 1
        /\ last' = a
        /\ \E w \in PageWrites :
              storage' = IF ReturnsSameState(state, a) THEN store
                         ELSE saveBoardState(store, next, Now, w)
        /\ UNCHANGED <<clock, call, result>>

\* a dispatch of a handler the model bounds
Commit(store, a, n) == Effect(store, a, n) /\ budget' = Counted(a)

\* applyBoardAction(a): the reducer is run by hand to get nextState (drawing
\* UUID n), the action is dispatched (the reducer draws again) and nextState is
\* saved; the effect then saves the state the reducer holds
applyBoardAction(a, n) ==
    \E w \in PageWrites :
        Commit(saveBoardState(storage, boardReducer(state, a, randomUUID(n), Now), Now, w),
               a, n + 1)

Ready == page.mounted /\ ~editDraft.open /\ Steps < MaxSteps

\* the first render shows the state read by the initializer; the effects then
\* run: saveBoardState(state)
Mount ==
    /\ ~page.mounted
    /\ page' = [page EXCEPT !.mounted = TRUE]
    /\ \E w \in PageWrites : storage' = saveBoardState(storage, state, Now, w)
    /\ UNCHANGED <<state, uuid, clock, editDraft, last, budget, call, result>>

\* the create form is submitted with these fields
addTaskWith(title, status, activeProject) ==
        LET draft == [emptyDraft EXCEPT !.title = title, !.status = status]
        IN  /\ Ready
            /\ IF Trim(draft.title) = ""
               THEN /\ page' = [page EXCEPT !.formError = "Title is required."]
                    /\ UNCHANGED <<state, storage, uuid, clock, last, budget, call, result>>
               ELSE /\ page' = [page EXCEPT !.formError = ""]
                    /\ applyBoardAction(
                          [type |-> "create",
                           payload |-> buildTaskFromDraft(state,
                                          [draft EXCEPT !.project =
                                              IF activeProject # NoProject THEN activeProject
                                              ELSE draft.project],
                                          activeProject, randomUUID(uuid + 1), Now)],
                          uuid + 2)
            /\ UNCHANGED editDraft

addTask ==
    \E title \in {"Write docs", "  ", ""}, status \in {"todo", "doing"},
       activeProject \in ActiveProjects :
        addTaskWith(title, status, activeProject)

\* the calendar's meeting form
scheduleMeetingWith(meetingTitle, activeProject, projectFilter) ==
        /\ Ready
        /\ applyBoardAction(
              [type |-> "create",
               payload |-> [id |-> randomUUID(uuid + 1),
                            project |-> IF activeProject # NoProject THEN activeProject
                                        ELSE IF projectFilter # "all" THEN projectFilter
                                        ELSE "General",
                            title |-> OrElse(Trim(meetingTitle), "Project Meeting"),
                            description |-> "", priority |-> "medium",
                            dueDate |-> "2026-02-18", tags |-> <<"meeting">>,
                            status |-> "todo", createdAt |-> Now, favorite |-> FALSE]],
              uuid + 2)
        /\ UNCHANGED <<page, editDraft>>

\* the route and the project filter the calendar is shown under: no project
\* (the filter on 'all' or on a project), or the project of the route
\* /board/project/<name>, which is any string
MeetingRoutes ==
    { [activeProject |-> NoProject, projectFilter |-> "all"],
      [activeProject |-> NoProject, projectFilter |-> "Design"],
      [activeProject |-> "  ", projectFilter |-> "  "] }

scheduleMeeting ==
    \E meetingTitle \in {"", "Sync"}, route \in MeetingRoutes :
        scheduleMeetingWith(meetingTitle, route.activeProject, route.projectFilter)

\* the Edit button of a task card
startEdit ==
    \E i \in 1..Len(state.tasks) :
        /\ Ready
        /\ editDraft' = [open |-> TRUE, draft |-> toDraft(state.tasks[i])]
        /\ page' = [page EXCEPT !.formError = ""]
        /\ UNCHANGED <<state, storage, uuid, clock, last, budget, call, result>>

\* the edit form is submitted after title, status and project were set to
\* these values
saveEditedTaskWith(title, status, project) ==
        LET draft == [editDraft.draft EXCEPT !.title = title, !.status = status,
                                             !.project = project]
        IN  /\ page.mounted /\ editDraft.open /\ Steps < MaxSteps
            /\ draft.id # undefined
            /\ IF Trim(draft.title) = ""
               THEN /\ status = editDraft.draft.status /\ project = "General"
                    /\ page' = [page EXCEPT !.formError = "Title is required."]
                    /\ editDraft' = [editDraft EXCEPT !.draft.title = title]
                    /\ UNCHANGED <<state, storage, uuid, clock, last, budget, call, result>>
               ELSE /\ page' = [page EXCEPT !.formError = ""]
                    /\ editDraft' = NoEdit
                    /\ applyBoardAction(
                          [type |-> "edit",
                           payload |-> buildTaskFromDraft(state, draft, NoProject,
                                                          randomUUID(uuid + 1), Now)],
                          uuid + 1)

saveEditedTask ==
    \E title \in {"Plan sprint", "  "}, status \in {"todo", "done"},
       project \in {"General", "  "} :
        saveEditedTaskWith(title, status, project)

\* the Cancel button of the edit modal
cancelEdit ==
    /\ page.mounted /\ editDraft.open
    /\ editDraft' = NoEdit
    /\ UNCHANGED <<state, storage, uuid, clock, page, last, budget, call, result>>

\* something is dropped on a column: a task card, or any other dragged text
onDropToColumn ==
    \E taskId \in {state.tasks[i].id : i \in 1..Len(state.tasks)} \cup {"ghost"},
       status \in TaskStatus :
        /\ Ready
        /\ Commit(storage, [type |-> "move", payload |-> [id |-> taskId, status |-> status]],
                  uuid + 1)
        /\ UNCHANGED <<page, editDraft>>

\* the star button of a task card
clickFavorite ==
    \E i \in 1..Len(state.tasks) :
        /\ Ready
        /\ Commit(storage, [type |-> "toggleFavorite", payload |-> [id |-> state.tasks[i].id]],
                  uuid + 1)
        /\ UNCHANGED <<page, editDraft>>

\* the Delete button of a task card
clickDelete ==
    \E i \in 1..Len(state.tasks) :
        /\ Ready
        /\ Commit(storage, [type |-> "delete", payload |-> [id |-> state.tasks[i].id]],
                  uuid + 1)
        /\ UNCHANGED <<page, editDraft>>

resetBoard ==
    /\ Ready
    /\ Commit(storage, [type |-> "reset"], uuid + 1)
    /\ UNCHANGED <<page, editDraft>>

clearActivityLog ==
    /\ Ready
    /\ Commit(storage, [type |-> "clearActivity"], uuid + 1)
    /\ UNCHANGED <<page, editDraft>>

\* the Clear button of an entry of the activity feed (the newest or the
\* oldest entry)
clickRemoveActivity ==
    \E i \in {1, Len(state.activity)} \cap (1..Len(state.activity)) :
        /\ Ready
        /\ Commit(storage, [type |-> "removeActivity", payload |-> [id |-> state.activity[i].id]],
                  uuid + 1)
        /\ UNCHANGED <<page, editDraft>>

\* what the page finds in localStorage when it starts
PageSnapshots ==
    { [main |-> Versioned(StoredBoard(tasks, <<>>), "2026-02-09T10:00:00.000Z"),
       backup |-> NoItem] :
         tasks \in { <<StoredTask1, StoredTask2>>, <<StoredTask1, StoredTask1Again>>,
                     <<StoredTaskMalformed, StoredTask2>>, <<StoredTaskNoStatus>> } }
    \cup { [main |-> Versioned(StoredBoard(<<StoredTask1>>, StoredActivity(ACTIVITY_LIMIT)),
                              "2026-02-09T10:00:00.000Z"),
            backup |-> NoItem] }
    \cup { NoStorage }

\* useReducer(boardReducer, initialState, () => loadBoardState())
Init ==
    /\ storage \in PageSnapshots
    /\ clock = 1
    /\ state = loadBoardState(storage, Now)
    /\ uuid = 0
    /\ page = NoPage
    /\ editDraft = NoEdit
    /\ last = [type |-> "init"]
    /\ budget = [creates |-> 0, others |-> 0]
    /\ call = NoCall
    /\ result = <<>>

Next ==
    \/ Tick
    \/ Mount
    \/ addTask
    \/ scheduleMeeting
    \/ startEdit
    \/ saveEditedTask
    \/ cancelEdit
    \/ onDropToColumn
    \/ clickFavorite
    \/ clickDelete
    \/ resetBoard
    \/ clearActivityLog
    \/ clickRemoveActivity

Spec == Init /\ [][Next]_vars

----------------------------------------------------------------------------
(* lib/task-utils.ts called on its own, as the unit tests call it: one call
   in a behaviour *)

\* the tasks of task-utils.test.ts, with the fields the helpers read varied
UtilTasks ==
    { [id |-> id, project |-> IF id = "1" THEN "General" ELSE "docs",
       title |-> IF id = "1" THEN "Write docs" ELSE "Fix bug",
       description |-> IF id = "1" THEN "" ELSE "Update docs",
       priority |-> IF id = "1" THEN "high" ELSE "medium",
       dueDate |-> dueDate, tags |-> IF id = "1" THEN <<>> ELSE <<"docs">>,
       status |-> IF id = "1" THEN "todo" ELSE "doing",
       createdAt |-> createdAt, favorite |-> (id = "2")] :
         id \in {"1", "2"}, dueDate \in {"", "2026-02-18", "2026-02-20"},
         createdAt \in {"2026-02-10T09:00:00.000Z", "2026-02-10T10:00:00.000Z"} }

\* the task lists of at most MaxLen tasks
UtilTaskLists == UNION { [1..n -> UtilTasks] : n \in 0..MaxLen }

callFilterAndSortTasks ==
    /\ call = NoCall
    /\ \E tasks \in UtilTaskLists, searchTerm \in {"", "  ", "DOCS"}, priority \in {"all", "high"},
          sortDirection \in {"asc", "desc"} :
        /\ call' = [fn |-> "filterAndSortTasks", tasks |-> tasks, searchTerm |-> searchTerm,
                    priority |-> priority, sortDirection |-> sortDirection]
        /\ result' = filterAndSortTasks(tasks, searchTerm, priority, sortDirection)
        /\ UNCHANGED <<state, storage, uuid, clock, page, editDraft, last, budget>>

callMoveTaskStatus ==
    /\ call = NoCall
    /\ \E tasks \in UtilTaskLists, taskId \in {"1", "2", "ghost"}, nextStatus \in TaskStatus :
        /\ call' = [fn |-> "moveTaskStatus", tasks |-> tasks, taskId |-> taskId,
                    nextStatus |-> nextStatus]
        /\ result' = moveTaskStatus(tasks, taskId, nextStatus)
        /\ UNCHANGED <<state, storage, uuid, clock, page, editDraft, last, budget>>

NextUtil ==
    \/ callFilterAndSortTasks
    \/ callMoveTaskStatus

SpecUtil == InitReducer /\ [][NextUtil]_vars

----------------------------------------------------------------------------
(* The reducer on a fresh board, driven long enough to fill the activity log:
   creations, and among them at most MaxOthers other actions that log *)

MaxCreates == ACTIVITY_LIMIT + 1

NextTask ==
    [id |-> "t-" \o ToString(budget.creates + 1), project |-> "General",
     title |-> "Write docs", description |-> "", priority |-> "high",
     dueDate |-> "2026-02-20", tags |-> <<>>, status |-> "todo",
     createdAt |-> Now, favorite |-> FALSE]

CreateNext ==
    /\ budget.creates < MaxCreates
    /\ Dispatch([type |-> "create", payload |-> NextTask])

MayLogOther == budget.others < MaxOthers /\ state.tasks # <<>>

EditNewest ==
    /\ MayLogOther
    /\ Dispatch([type |-> "edit", payload |-> [state.tasks[1] EXCEPT !.title = "Plan sprint"]])

DeleteNewest ==
    /\ MayLogOther
    /\ Dispatch([type |-> "delete", payload |-> [id |-> state.tasks[1].id]])

MoveNewest ==
    \E status \in TaskStatus :
        /\ MayLogOther
        /\ status # state.tasks[1].status
        /\ Dispatch([type |-> "move", payload |-> [id |-> state.tasks[1].id, status |-> status]])

FavoriteNewest ==
    /\ MayLogOther
    /\ Dispatch([type |-> "toggleFavorite", payload |-> [id |-> state.tasks[1].id]])

LogMessage ==
    \E msg \in ActionMessages :
        /\ MayLogOther /\ msg.sender = "me"
        /\ Dispatch([type |-> "addMessage", payload |-> msg])

LogDocument ==
    \E doc \in ActionDocuments :
        /\ MayLogOther
        /\ Dispatch([type |-> "addDocument", payload |-> doc])

NextCap ==
    \/ CreateNext
    \/ EditNewest
    \/ DeleteNewest
    \/ MoveNewest
    \/ FavoriteNewest
    \/ LogMessage
    \/ LogDocument

SpecCap == InitReducer /\ [][NextCap]_vars

----------------------------------------------------------------------------
(* lib/storage.ts called on its own: the board is saved and loaded against
   every content of the two keys.  Spec and SpecReducer read a storage that
   answers; here a read may fail as well. *)

\* localStorage.getItem returns, or raises (storage blocked by the browser)
ReadOutcomes == {"ok", "throws"}

Raised == [raised |-> TRUE]
Returned(value) == [raised |-> FALSE, value |-> value]

\* loadBoardState(): the two getItem calls are outside every try block
loadBoardStateOutcome(store, now, read) ==
    IF read = "throws" THEN Raised ELSE Returned(loadBoardState(store, now))

\* saveBoardState(s): stringify and both setItem calls are inside the try
\* block, whose catch is empty
saveBoardStateOutcome(store, s, now, outcome) == Returned(undefined)

\* board states built from valid entities only
ValidTaskLists ==
    { <<>>,
      << [id |-> "7", project |-> "Design", title |-> "Plan sprint", description |-> "notes",
          priority |-> "low", dueDate |-> "", tags |-> <<"meeting", "7">>,
          status |-> "doing", createdAt |-> "2026-02-10T09:00:00.000Z", favorite |-> TRUE] >>,
      << [id |-> "1", project |-> "General", title |-> "Write docs", description |-> "",
          priority |-> "high", dueDate |-> "2026-02-20", tags |-> <<>>,
          status |-> "todo", createdAt |-> "2026-02-10T10:00:00.000Z", favorite |-> FALSE],
         [id |-> "2", project |-> "Development", title |-> "Fix bug", description |-> "",
          priority |-> "medium", dueDate |-> "2026-02-18", tags |-> <<"meeting">>,
          status |-> "done", createdAt |-> "2026-02-09T10:00:00.000Z", favorite |-> TRUE] >> }

ValidExtras ==
    { [activity |-> <<>>, messages |-> <<>>, documents |-> <<>>, settings |-> DefaultSettings],
      [activity |-> << makeActivity("moved", "Write docs", "TODO -> DONE", "a-2",
                                    "2026-02-10T10:00:00.000Z"),
                       makeActivity("created", "Write docs", undefined, "a-1",
                                    "2026-02-10T09:00:00.000Z") >>,
       messages |-> << [id |-> "m-1", sender |-> "me", text |-> "hello",
                        timestamp |-> "2026-02-10T09:00:00.000Z"],
                       [id |-> "m-2", sender |-> "teammate", text |-> "Received: hello",
                        timestamp |-> "2026-02-10T09:00:00.000Z"] >>,
       documents |-> << [id |-> "d-9", name |-> "plan.pdf", mimeType |-> "application/pdf",
                         size |-> 2048, uploadedAt |-> "2026-02-10T09:00:00.000Z",
                         dataUrl |-> "data:application/pdf;base64,cGxhbg=="] >>,
       settings |-> [compactCards |-> TRUE, showCompleted |-> FALSE, accent |-> "orange"]] }

ValidStates ==
    { [tasks |-> tasks, activity |-> x.activity, messages |-> x.messages,
       documents |-> x.documents, settings |-> x.settings] :
         tasks \in ValidTaskLists, x \in ValidExtras }

\* what either key can hold
LoadItems ==
    StoredItems
    \cup { Versioned(StoredBoard(tasks, <<>>), updatedAt) :
             tasks \in { <<StoredTask1>>, <<StoredTask2>>, <<StoredTask1, StoredTask2>> },
             updatedAt \in { "2026-02-09T10:00:00.000Z", "2026-02-10T09:00:00.000Z" } }
    \cup { Versioned(StoredBoard(<<StoredTask1, JNum(7), StoredTaskMalformed>>, <<>>),
                     "2026-02-09T10:00:00.000Z"),
           JsonText(JObj([version |-> JNum(2), state |-> JStr("none")])) }

LoadSnapshots == { [main |-> main, backup |-> backup] : main, backup \in LoadItems }

\* the board becomes s and saveBoardState(s) is called
callSaveBoardState ==
    \E s \in ValidStates, outcome \in WriteOutcomes :
        /\ state' = s
        /\ storage' = saveBoardState(storage, s, Now, outcome)
        /\ last' = [type |-> "save", outcome |-> outcome]
        /\ call' = [fn |-> "saveBoardState", store |-> storage]
        /\ result' = saveBoardStateOutcome(storage, s, Now, outcome)
        /\ UNCHANGED <<uuid, clock, page, editDraft, budget>>

callLoadBoardState ==
    \E read \in ReadOutcomes :
        /\ call' = [fn |-> "loadBoardState", store |-> storage, read |-> read]
        /\ result' = loadBoardStateOutcome(storage, Now, read)
        /\ UNCHANGED <<state, storage, uuid, clock, page, editDraft, last, budget>>

InitStorage ==
    /\ storage \in LoadSnapshots
    /\ state = initialState
    /\ uuid = 0
    /\ clock = 1
    /\ page = NoPage
    /\ editDraft = NoEdit
    /\ last = [type |-> "init"]
    /\ budget = [creates |-> 0, others |-> 0]
    /\ call = NoCall
    /\ result = <<>>

NextStorage ==
    \/ callSaveBoardState
    \/ callLoadBoardState

SpecStorage == InitStorage /\ [][NextStorage]_vars

----------------------------------------------------------------------------
(* app/board page: the chat panel.  sendMessage dispatches the user's message
   and arms a timer of 450 ms; the timers of the page are never cancelled and,
   having the same delay, run in the order they were armed.  page.timers holds
   the armed callbacks, each with the text its closure captured. *)

MaxSends == 2

LongText == "Please review the sprint plan before the standup tomorrow"

MessageInputs == {"hello", LongText, "  ", ""}

\* the UUIDs drawn so far
Drawn == { randomUUID(n) : n \in 1..uuid }

\* the positions of the messages this page made, by sender
MadeAt(sender) ==
    { i \in 1..Len(state.messages) :
        state.messages[i].sender = sender /\ state.messages[i].id \in Drawn }

Kth(S, k) == CHOOSE i \in S : Cardinality({ j \in S : j < i }) = k - 1

\* a variant that quotes the whole text
replyText_Whole(text) == "Received: " \o text

\* `Received: ${text.slice(0, 48)}`
replyText(text) == "Received: " \o SliceString(text, 48)

\* the Send button with this text in the message box
sendMessageWith(messageInput) ==
    LET text == Trim(messageInput)
        mine == [id |-> randomUUID(uuid + 1), sender |-> "me", text |-> text,
                 timestamp |-> Now]
    IN  /\ page.mounted /\ ~editDraft.open
        /\ Cardinality(MadeAt("me")) < MaxSends
        /\ IF text = "" THEN UNCHANGED vars
           ELSE /\ Effect(storage, [type |-> "addMessage", payload |-> mine], uuid + 2)
                /\ page' = [page EXCEPT !.timers = Append(@, [text |-> text])]
                /\ UNCHANGED <<editDraft, budget>>

sendMessage == \E messageInput \in MessageInputs : sendMessageWith(messageInput)

\* the callback of the oldest armed timer runs
fireReply ==
    /\ page.timers # <<>>
    /\ LET text == Head(page.timers).text
           reply == [id |-> randomUUID(uuid + 1), sender |-> "teammate",
                     text |-> replyText(text), timestamp |-> Now]
       IN  Effect(storage, [type |-> "addMessage", payload |-> reply], uuid + 2)
    /\ page' = [page EXCEPT !.timers = Tail(@)]
    /\ UNCHANGED <<editDraft, budget>>

\* the page starts on an empty storage or on a saved board of two tasks
ChatSnapshots ==
    { NoStorage,
      [main |-> Versioned(StoredBoard(<<StoredTask1, StoredTask2>>, <<>>),
                          "2026-02-09T10:00:00.000Z"),
       backup |-> NoItem] }

InitChat ==
    /\ storage \in ChatSnapshots
    /\ clock = 1
    /\ state = loadBoardState(storage, Now)
    /\ uuid = 0
    /\ page = NoPage
    /\ editDraft = NoEdit
    /\ last = [type |-> "init"]
    /\ budget = [creates |-> 0, others |-> 0]
    /\ call = NoCall
    /\ result = <<>>

NextChat ==
    \/ Mount
    \/ sendMessage
    \/ fireReply
    \/ \E meetingTitle \in {"", "Sync"} : scheduleMeetingWith(meetingTitle, NoProject, "all")
    \/ resetBoard
    \/ clearActivityLog

\* the event loop runs the callback of every timer that is due
SpecChat == InitChat /\ [][NextChat]_vars /\ WF_vars(fireReply)

----------------------------------------------------------------------------
(* app/board page: the derived views (the useMemo values of BoardPage), each
   computed on its own from its inputs: one computation in a behaviour.  The
   sources hold two variants of the page; they differ in sectionTasks. *)

WorkspaceSection == {"home", "my_tasks", "inbox", "portfolios", "goals", "favorites"}

\* a variant that shows the completed tasks whatever the settings say
sectionBase_ShowsCompleted(filteredTasks, settings, projectFilter, activeProject, globalSearchTerm) ==
    LET term == ToLowerCase(Trim(globalSearchTerm))
        Keep(task) ==
            IF projectFilter # "all" /\ task.project # projectFilter THEN FALSE
            ELSE IF activeProject # NoProject /\ task.project # activeProject THEN FALSE
            ELSE IF term = "" THEN TRUE
            ELSE \/ Includes(ToLowerCase(task.title), term)
                 \/ Includes(ToLowerCase(task.description), term)
    IN  SelectSeq(filteredTasks, Keep)

\* base of sectionTasks (the same in both variants)
sectionBase(filteredTasks, settings, projectFilter, activeProject, globalSearchTerm) ==
    LET term == ToLowerCase(Trim(globalSearchTerm))
        Keep(task) ==
            IF ~settings.showCompleted /\ task.status = "done" THEN FALSE
            ELSE IF projectFilter # "all" /\ task.project # projectFilter THEN FALSE
            ELSE IF activeProject # NoProject /\ task.project # activeProject THEN FALSE
            ELSE IF term = "" THEN TRUE
            ELSE \/ Includes(ToLowerCase(task.title), term)
                 \/ Includes(ToLowerCase(task.description), term)
    IN  SelectSeq(filteredTasks, Keep)

\* sectionTasks of the first variant
sectionTasks(filteredTasks, settings, projectFilter, activeProject, globalSearchTerm, activeSection) ==
    LET base == sectionBase(filteredTasks, settings, projectFilter, activeProject,
                            globalSearchTerm)
    IN  CASE activeSection = "my_tasks" -> base
          [] activeSection = "inbox" ->
                SelectSeq(base, LAMBDA task : task.status = "todo" \/ task.priority = "high")
          [] activeSection = "portfolios" ->
                IF activeProject # NoProject
                THEN SelectSeq(base, LAMBDA task : task.project = activeProject)
                ELSE base
          [] activeSection = "goals" -> base
          [] activeSection = "favorites" -> SelectSeq(base, LAMBDA task : task.favorite)
          [] OTHER -> base

\* sectionTasks of the second variant
sectionTasksSecond(filteredTasks, settings, projectFilter, activeProject, globalSearchTerm, activeSection) ==
    LET base == sectionBase(filteredTasks, settings, projectFilter, activeProject,
                            globalSearchTerm)
    IN  CASE activeSection = "my_tasks" ->
                SelectSeq(base, LAMBDA task : task.project = "Personal" \/ task.favorite)
          [] activeSection = "inbox" ->
                SelectSeq(base, LAMBDA task : task.status = "todo" \/ task.priority = "high")
          [] activeSection = "portfolios" ->
                SelectSeq(base, LAMBDA task : task.project # "General")
          [] activeSection = "goals" ->
                SelectSeq(base, LAMBDA task : task.status # "done" /\ Len(task.dueDate) > 0)
          [] activeSection = "favorites" -> SelectSeq(base, LAMBDA task : task.favorite)
          [] OTHER -> base

\* a variant whose first column also shows the tasks in progress
groupedColumns_TodoShowsDoing(tasks) ==
    [status \in Range(COLUMN_ORDER) |->
        SelectSeq(tasks, LAMBDA task : IF status = "todo" THEN task.status # "done"
                                       ELSE task.status = status)]

\* groupedColumns: COLUMN_ORDER.reduce over the three statuses
groupedColumns(tasks) ==
    [status \in Range(COLUMN_ORDER) |-> SelectSeq(tasks, LAMBDA task : task.status = status)]

calendarScopeTasks(tasks, activeProject) ==
    IF activeProject # NoProject
    THEN SelectSeq(tasks, LAMBDA task : task.project = activeProject)
    ELSE tasks

\* tasksByDueDate: reduce from {} over the scope; acc is a function from the
\* keys it has to their lists
RECURSIVE bucketReduce(_, _)
bucketReduce(acc, tasks) ==
    IF tasks = <<>> THEN acc
    ELSE LET task == Head(tasks)
             next == IF task.dueDate = "" THEN acc
                     ELSE [key \in DOMAIN acc \cup {task.dueDate} |->
                             IF key = task.dueDate
                             THEN Append(IF key \in DOMAIN acc THEN acc[key] ELSE <<>>, task)
                             ELSE acc[key]]
         IN  bucketReduce(next, Tail(tasks))

\* a variant that gives the tasks without due date a bucket of their own
tasksByDueDate_KeepsUndated(scope) ==
    [key \in { scope[i].dueDate : i \in 1..Len(scope) } |->
        SelectSeq(scope, LAMBDA task : task.dueDate = key)]

tasksByDueDate(scope) == bucketReduce(<<>>, scope)

\* tasks of every status, priority and project, with and without a due date
ViewTask(id, project, title, description, priority, dueDate, status, favorite) ==
    [id |-> id, project |-> project, title |-> title, description |-> description,
     priority |-> priority, dueDate |-> dueDate, tags |-> <<>>, status |-> status,
     createdAt |-> "2026-02-10T09:00:00.000Z", favorite |-> favorite]

ViewTasks ==
    { ViewTask("1", "General", "Write docs", "", "high", "2026-02-18", "todo", FALSE),
      ViewTask("2", "Design", "Fix bug", "Update docs", "medium", "", "todo", TRUE),
      ViewTask("3", "Design", "Write docs", "", "high", "2026-02-20", "doing", FALSE),
      ViewTask("4", "General", "Fix bug", "", "medium", "2026-02-18", "doing", TRUE),
      ViewTask("5", "Personal", "Fix bug", "", "medium", "", "done", FALSE),
      ViewTask("6", "Design", "Write docs", "", "high", "2026-02-20", "done", TRUE) }

ViewTaskLists == UNION { [1..n -> ViewTasks] : n \in 0..MaxLen }

ViewSettings ==
    { [compactCards |-> FALSE, showCompleted |-> showCompleted, accent |-> "teal"] :
        showCompleted \in BOOLEAN }

callSectionTasks ==
    /\ call = NoCall
    /\ \E filteredTasks \in ViewTaskLists, settings \in ViewSettings,
          projectFilter \in {"all", "General"}, activeProject \in ActiveProjects,
          globalSearchTerm \in {"", "DOCS"}, activeSection \in WorkspaceSection,
          variant \in {"first", "second"} :
        /\ call' = [fn |-> "sectionTasks", variant |-> variant,
                    filteredTasks |-> filteredTasks, settings |-> settings,
                    projectFilter |-> projectFilter, activeProject |-> activeProject,
                    globalSearchTerm |-> globalSearchTerm, activeSection |-> activeSection]
        /\ result' = IF variant = "first"
                     THEN sectionTasks(filteredTasks, settings, projectFilter, activeProject,
                                       globalSearchTerm, activeSection)
                     ELSE sectionTasksSecond(filteredTasks, settings, projectFilter,
                                             activeProject, globalSearchTerm, activeSection)
        /\ UNCHANGED <<state, storage, uuid, clock, page, editDraft, last, budget>>

\* summary of the first variant: counted over the board, or the active
\* project's tasks
summary(tasks, activeProject) ==
    LET scopeTasks == IF activeProject # NoProject
                      THEN SelectSeq(tasks, LAMBDA task : task.project = activeProject)
                      ELSE tasks
    IN  [total |-> Len(scopeTasks),
         todo |-> Len(SelectSeq(scopeTasks, LAMBDA task : task.status = "todo")),
         doing |-> Len(SelectSeq(scopeTasks, LAMBDA task : task.status = "doing")),
         done |-> Len(SelectSeq(scopeTasks, LAMBDA task : task.status = "done")),
         favorites |-> Len(SelectSeq(scopeTasks, LAMBDA task : task.favorite))]

\* summary of the second variant: counted over sectionTasks
summarySecond(tasks) ==
    [total |-> Len(tasks),
     todo |-> Len(SelectSeq(tasks, LAMBDA task : task.status = "todo")),
     doing |-> Len(SelectSeq(tasks, LAMBDA task : task.status = "doing")),
     done |-> Len(SelectSeq(tasks, LAMBDA task : task.status = "done")),
     favorites |-> Len(SelectSeq(tasks, LAMBDA task : task.favorite))]

\* the page renders: filteredTasks, sectionTasks and summary are recomputed
\* from the tasks, the filters and the route
callSummary ==
    /\ call = NoCall
    /\ \E tasks \in ViewTaskLists, activeProject \in ActiveProjects,
          searchTerm \in {"", "DOCS"}, priorityFilter \in {"all", "high"},
          activeSection \in {"home", "favorites"}, variant \in {"first", "second"} :
        LET filteredTasks == filterAndSortTasks(tasks, searchTerm, priorityFilter, "asc")
        IN  /\ call' = [fn |-> "summary", variant |-> variant, tasks |-> tasks,
                        activeProject |-> activeProject, searchTerm |-> searchTerm,
                        priorityFilter |-> priorityFilter, activeSection |-> activeSection]
            /\ result' = IF variant = "first"
                         THEN summary(tasks, activeProject)
                         ELSE summarySecond(
                                 sectionTasksSecond(filteredTasks, DefaultSettings, "all",
                                                    activeProject, "", activeSection))
            /\ UNCHANGED <<state, storage, uuid, clock, page, editDraft, last, budget>>

\* the section-scoped list the page of this variant shows for a board, with
\* no search term, priority or project filter set
shownTasks(variant, s, activeProject, activeSection) ==
    LET filteredTasks == filterAndSortTasks(s.tasks, "", "all", "asc")
    IN  IF variant = "first"
        THEN sectionTasks(filteredTasks, s.settings, "all", activeProject, "", activeSection)
        ELSE sectionTasksSecond(filteredTasks, s.settings, "all", activeProject, "",
                                activeSection)

\* the settings checkbox 'Show completed tasks' is cleared and set again; the
\* page renders the list and the columns of the board before, between and
\* after
callToggleShowCompleted ==
    /\ call = NoCall
    /\ \E tasks \in ViewTaskLists, activeProject \in ActiveProjects,
          activeSection \in WorkspaceSection, variant \in {"first", "second"} :
        LET before == [initialState EXCEPT !.tasks = tasks]
            hidden == boardReducer(before,
                         [type |-> "updateSettings", payload |-> [showCompleted |-> FALSE]],
                         randomUUID(uuid + 1), Now)
            after == boardReducer(hidden,
                        [type |-> "updateSettings", payload |-> [showCompleted |-> TRUE]],
                        randomUUID(uuid + 1), Now)
            Shown(s) == shownTasks(variant, s, activeProject, activeSection)
        IN  /\ call' = [fn |-> "toggleShowCompleted", variant |-> variant, tasks |-> tasks,
                        activeProject |-> activeProject, activeSection |-> activeSection]
            /\ result' = [boards |-> <<before, hidden, after>>,
                          lists |-> <<Shown(before), Shown(hidden), Shown(after)>>,
                          columns |-> <<groupedColumns(Shown(before)),
                                        groupedColumns(Shown(hidden)),
                                        groupedColumns(Shown(after))>>]
            /\ UNCHANGED <<state, storage, uuid, clock, page, editDraft, last, budget>>

callGroupedColumns ==
    /\ call = NoCall
    /\ \E tasks \in ViewTaskLists :
        /\ call' = [fn |-> "groupedColumns", sectionTasks |-> tasks]
        /\ result' = groupedColumns(tasks)
        /\ UNCHANGED <<state, storage, uuid, clock, page, editDraft, last, budget>>

callTasksByDueDate ==
    /\ call = NoCall
    /\ \E tasks \in ViewTaskLists, activeProject \in ActiveProjects :
        /\ call' = [fn |-> "tasksByDueDate", tasks |-> tasks, activeProject |-> activeProject,
                    scope |-> calendarScopeTasks(tasks, activeProject)]
        /\ result' = tasksByDueDate(calendarScopeTasks(tasks, activeProject))
        /\ UNCHANGED <<state, storage, uuid, clock, page, editDraft, last, budget>>

NextView ==
    \/ callSectionTasks
    \/ callSummary
    \/ callToggleShowCompleted
    \/ callGroupedColumns
    \/ callTasksByDueDate

SpecView == InitReducer /\ [][NextView]_vars

----------------------------------------------------------------------------
(* middleware.ts, lib/auth.ts, app/login page and the board's logout: the
   browser requests paths, the middleware answers, the sign-in form is filled
   in and submitted.  The sources hold two variants of the sign-in page. *)

DEMO_CREDENTIALS == [email |-> "intern@demo.com", password |-> "intern123"]

\* the value of the cookie AUTH_COOKIE as the request carries it
CookieValue(cookie) == IF cookie.set THEN cookie.value ELSE undefined

\* config.matcher: the paths the middleware runs for
Matched(pathname) ==
    pathname = "/board" \/ StartsWith(pathname, "/board/") \/ pathname = "/login"

\* a variant that lets a signed-in user see the sign-in page
middleware_BoardOnly(pathname, cookie) ==
    IF StartsWith(pathname, "/board") /\ CookieValue(cookie) # "1" THEN "/login"
    ELSE pathname

\* the path the middleware redirects to, or the path itself for next()
middleware(pathname, cookie) ==
    LET hasAuth == CookieValue(cookie) = "1"
    IN  IF StartsWith(pathname, "/board") /\ ~hasAuth THEN "/login"
        ELSE IF StartsWith(pathname, "/login") /\ hasAuth THEN "/board"
        ELSE pathname

\* the path the browser ends on: it follows the redirect with a new request
RECURSIVE Serve(_, _)
Serve(pathname, cookie) ==
    LET answer == IF Matched(pathname) THEN middleware(pathname, cookie) ELSE pathname
    IN  IF answer = pathname THEN pathname ELSE Serve(answer, cookie)

\* setAuthCookie: a session cookie, or one with max-age when rememberMe
setAuthCookie(rememberMe) == [set |-> TRUE, value |-> "1", maxAge |-> rememberMe]

\* clearAuthCookie: the expiry in the past makes the browser drop the cookie
clearAuthCookie == NoCookie

\* the tab after it went to a path: the sign-in page starts with the saved
\* sign-in (loadAuthState), every other page has no form
Landed(p, path) ==
    [p EXCEPT !.path = path,
              !.email = IF path = "/login" /\ p.authState.saved THEN p.authState.email ELSE "",
              !.password = "",
              !.rememberMe = path = "/login" /\ p.authState.saved,
              !.error = ""]

RequestPaths == {"/login", "/board", "/board/inbox/list"}

\* the browser asks for a path (address bar, link, reload)
requestWith(pathname) ==
    /\ page' = Landed(page, Serve(pathname, page.cookie))
    /\ last' = [type |-> "request", pathname |-> pathname, previous |-> last.type]
    /\ UNCHANGED <<state, storage, uuid, clock, editDraft, budget, call, result>>

request == \E pathname \in RequestPaths : requestWith(pathname)

Emails == {"intern@demo.com", " Intern@Demo.com ", "a@b.c", "intern", ""}
Passwords == {"intern123", " intern123 ", "abcd", "abc", ""}

setEmail ==
    \E email \in Emails :
        /\ page.path = "/login"
        /\ page' = [page EXCEPT !.email = email]
        /\ UNCHANGED <<state, storage, uuid, clock, editDraft, last, budget, call, result>>

setPassword ==
    \E password \in Passwords :
        /\ page.path = "/login"
        /\ page' = [page EXCEPT !.password = password]
        /\ UNCHANGED <<state, storage, uuid, clock, editDraft, last, budget, call, result>>

setRememberMe ==
    /\ page.path = "/login"
    /\ page' = [page EXCEPT !.rememberMe = ~@]
    /\ UNCHANGED <<state, storage, uuid, clock, editDraft, last, budget, call, result>>

\* what onSubmit does once it accepts the form
SignIn(email) ==
    LET cookie == setAuthCookie(page.rememberMe)
        signedIn == [page EXCEPT !.cookie = cookie,
                                 !.authState = IF page.rememberMe
                                               THEN [saved |-> TRUE, email |-> email,
                                                     rememberMe |-> TRUE]
                                               ELSE NoAuth]
    IN  page' = Landed(signedIn, Serve("/board", cookie))

\* LoginPage.onSubmit of app/login/page.tsx
onSubmit ==
    LET normalizedEmail == ToLowerCase(Trim(page.email))
        normalizedPassword == Trim(page.password)
    IN  /\ page.path = "/login"
        /\ IF normalizedEmail = "" \/ normalizedPassword = ""
           THEN page' = [page EXCEPT !.error = "Please enter both email and password."]
           ELSE IF ~Contains(normalizedEmail, "@") \/ Len(normalizedPassword) < 4
           THEN page' = [page EXCEPT !.error = "Use a valid email and password."]
           ELSE SignIn(normalizedEmail)
        /\ last' = [type |-> "onSubmit", variant |-> "first", email |-> page.email,
                    password |-> page.password]
        /\ UNCHANGED <<state, storage, uuid, clock, editDraft, budget, call, result>>

\* LoginPage.onSubmit of the second variant
onSubmitSecond ==
    /\ page.path = "/login"
    /\ IF \/ ToLowerCase(Trim(page.email)) # DEMO_CREDENTIALS.email
          \/ page.password # DEMO_CREDENTIALS.password
       THEN page' = [page EXCEPT !.error = "Invalid email or password."]
       ELSE SignIn(DEMO_CREDENTIALS.email)
    /\ last' = [type |-> "onSubmit", variant |-> "second", email |-> page.email,
                password |-> page.password]
    /\ UNCHANGED <<state, storage, uuid, clock, editDraft, budget, call, result>>

\* the board's Logout button
logout ==
    /\ StartsWith(page.path, "/board")
    /\ LET signedOut == [page EXCEPT !.authState = NoAuth, !.cookie = clearAuthCookie]
       IN  page' = Landed(signedOut, Serve("/login", clearAuthCookie))
    /\ last' = [type |-> "logout"]
    /\ UNCHANGED <<state, storage, uuid, clock, editDraft, budget, call, result>>

\* the browser drops the cookie: the session ends or max-age has passed
cookieExpires ==
    /\ page.cookie.set
    /\ page' = [page EXCEPT !.cookie = NoCookie]
    /\ last' = [type |-> "cookieExpires"]
    /\ UNCHANGED <<state, storage, uuid, clock, editDraft, budget, call, result>>

NextAuth ==
    \/ request
    \/ setEmail
    \/ setPassword
    \/ setRememberMe
    \/ onSubmit
    \/ onSubmitSecond
    \/ logout
    \/ cookieExpires

SpecAuth == InitReducer /\ [][NextAuth]_vars

----------------------------------------------------------------------------
(* app/board page, closed and opened again on a storage whose writes can
   fail: the board of an earlier visit is under both keys, or under the
   primary key alone *)

ReloadSnapshots ==
    { [main |-> Versioned(StoredBoard(<<StoredTask1, StoredTask2>>, <<>>),
                          "2026-02-09T10:00:00.000Z"),
       backup |-> backup] :
         backup \in { NoItem, Versioned(StoredBoard(<<StoredTask1, StoredTask2>>, <<>>),
                                        "2026-02-09T10:00:00.000Z") } }

\* the tab is reloaded: the initializer of useReducer reads storage again.
\* last records the tasks the board held and whether the primary key held
\* the board
reload ==
    /\ page.mounted /\ ~editDraft.open
    /\ state' = loadBoardState(storage, Now)
    /\ page' = [page EXCEPT !.mounted = FALSE, !.formError = "", !.timers = <<>>]
    /\ last' = [type |-> "reload", before |-> state.tasks,
                saved |-> /\ storage.main.k = "text"
                          /\ Get(storage.main.json, "state") = BoardStateToJson(state),
                backup |-> /\ storage.backup.k = "text"
                           /\ Get(storage.backup.json, "state") = BoardStateToJson(state)]
    /\ UNCHANGED <<storage, uuid, clock, editDraft, budget, call, result>>

InitReload ==
    /\ storage \in ReloadSnapshots
    /\ clock = 1
    /\ state = loadBoardState(storage, Now)
    /\ uuid = 0
    /\ page = [NoPage EXCEPT !.writes = WriteOutcomes]
    /\ editDraft = NoEdit
    /\ last = [type |-> "init"]
    /\ budget = [creates |-> 0, others |-> 0]
    /\ call = NoCall
    /\ result = <<>>

NextReload ==
    \/ Tick
    \/ Mount
    \/ clickDelete
    \/ clickFavorite
    \/ resetBoard
    \/ reload

SpecReload == InitReload /\ [][NextReload]_vars

----------------------------------------------------------------------------
(* app/board page: dispatch, render and the effects of the page as steps of
   their own.  A render leaves the save effect of its commit to be run; the
   effects of a commit run in the order the page declares them.  The first
   variant reads storage in the initializer of useReducer, the second in an
   effect guarded by hasLoadedRef. *)

\* the snapshot under this key is the state the reducer holds
Holds(item) ==
    /\ item.k = "text"
    /\ Get(item.json, "state") = BoardStateToJson(state)

Persisted == Holds(storage.main) /\ Holds(storage.backup)

Pending == page.effects # <<>>

\* the effects of the first commit.  First variant: saveBoardState(state), the
\* state being what the initializer read.  Second variant: the load effect
\* reads storage, dispatches load and sets hasLoadedRef; the save effect, run
\* next, finds the ref set and saves the state of this render, initialState;
\* the render after it shows the loaded state
mountEffects ==
    /\ ~page.mounted
    /\ page.effects # <<>>
    /\ \E w \in PageWrites :
        IF page.variant = "first"
        THEN /\ storage' = saveBoardState(storage, state, Now, w)
             /\ state' = state
             /\ page' = [page EXCEPT !.mounted = TRUE, !.effects = <<>>]
        ELSE /\ storage' = saveBoardState(storage, state, Now, w)
             /\ state' = boardReducer(state,
                            [type |-> "load", payload |-> loadBoardState(storage, Now)],
                            randomUUID(uuid + 1), Now)
             /\ page' = [page EXCEPT !.mounted = TRUE, !.effects = <<"save">>]
    /\ last' = [type |-> "mount"]
    /\ UNCHANGED <<uuid, clock, editDraft, budget, call, result>>

\* the save effect of the latest commit: saveBoardState(state)
saveEffect ==
    /\ page.mounted
    /\ page.effects # <<>>
    /\ \E w \in PageWrites : storage' = saveBoardState(storage, state, Now, w)
    /\ page' = [page EXCEPT !.effects = <<>>]
    /\ last' = [type |-> "save"]
    /\ UNCHANGED <<state, uuid, clock, editDraft, budget, call, result>>

\* dispatch(a) and the render that follows: the reducer runs with the UUID
\* drawn as number n; a new state object leaves a save effect to run
Rendered(a, n) ==
    LET next == boardReducer(state, a, randomUUID(n), Now)
        drew == next.activity # <<>> /\ next.activity[1].id = randomUUID(n)
    IN  /\ state' = next
        /\ uuid' = IF drew THEN n ELSE n - 1
        /\ last' = a
        /\ budget' = Counted(a)
        /\ UNCHANGED <<clock, editDraft, call, result>>

\* a variant whose renders leave no effect to run
Scheduled_Nothing(a) == page.effects

\* useEffect(..., [state]): the effect runs after a render whose state is a new
\* object
Scheduled(a) == IF ReturnsSameState(state, a) THEN page.effects ELSE <<"save">>

\* the action objects the handlers of the page dispatch directly
DirectActions ==
    { [type |-> "delete", payload |-> [id |-> id]] : id \in {"1", "ghost"} }
    \cup { [type |-> "move", payload |-> [id |-> "1", status |-> status]] :
              status \in {"todo", "done"} }
    \cup { [type |-> "toggleFavorite", payload |-> [id |-> id]] : id \in {"2", "ghost"} }
    \cup { [type |-> "reset"], [type |-> "clearActivity"],
           [type |-> "updateSettings", payload |-> [showCompleted |-> FALSE]] }

\* the action objects of the create and the edit form
FormActions ==
    { [type |-> type, payload |-> task] :
        type \in {"create", "edit"},
        task \in { t \in ActionTasks : t.status = "todo" /\ ~t.favorite } }

dispatchAction ==
    /\ page.mounted
    /\ Steps < MaxDispatches
    /\ \E a \in DirectActions \cup (IF page.variant = "second" THEN FormActions ELSE {}) :
        /\ Rendered(a, uuid + 1)
        /\ page' = [page EXCEPT !.effects = Scheduled(a)]
        /\ UNCHANGED storage

\* applyBoardAction(a) of the first variant: nextState is computed by hand and
\* saved, the dispatch runs the reducer again
applyAction ==
    /\ page.mounted
    /\ page.variant = "first"
    /\ Steps < MaxDispatches
    /\ \E a \in FormActions, w \in PageWrites :
        /\ storage' = saveBoardState(storage,
                         boardReducer(state, a, randomUUID(uuid + 1), Now), Now, w)
        /\ Rendered(a, uuid + 2)
        /\ page' = [page EXCEPT !.effects = Scheduled(a)]

\* sendMessage: the message is dispatched and the reply timer armed
sendAction ==
    /\ page.mounted
    /\ Steps < MaxDispatches
    /\ LET mine == [id |-> randomUUID(uuid + 1), sender |-> "me", text |-> "hello",
                    timestamp |-> Now]
       IN  /\ Rendered([type |-> "addMessage", payload |-> mine], uuid + 2)
           /\ page' = [page EXCEPT !.effects = <<"save">>,
                                   !.timers = Append(@, [text |-> "hello"])]
    /\ UNCHANGED storage

\* the callback of the oldest armed timer dispatches the reply
timerAction ==
    /\ page.timers # <<>>
    /\ LET reply == [id |-> randomUUID(uuid + 1), sender |-> "teammate",
                     text |-> replyText(Head(page.timers).text), timestamp |-> Now]
           a == [type |-> "addMessage", payload |-> reply]
           next == boardReducer(state, a, randomUUID(uuid + 2), Now)
           drew == next.activity # <<>> /\ next.activity[1].id = randomUUID(uuid + 2)
       IN  /\ state' = next
           /\ uuid' = IF drew THEN uuid + 2 ELSE uuid + 1
           /\ last' = a
           /\ page' = [page EXCEPT !.effects = <<"save">>, !.timers = Tail(@)]
    /\ UNCHANGED <<storage, clock, editDraft, budget, call, result>>

\* the first render of either variant has run on a storage that is empty, or
\* holds a board of two tasks
InitSync ==
    /\ storage \in ChatSnapshots
    /\ clock = 1
    /\ \E variant \in {"first", "second"} :
        /\ page = [NoPage EXCEPT !.variant = variant,
                                 !.effects = IF variant = "first" THEN <<"save">>
                                             ELSE <<"load", "save">>]
        /\ state = IF variant = "first" THEN loadBoardState(storage, Now) ELSE initialState
    /\ uuid = 0
    /\ editDraft = NoEdit
    /\ last = [type |-> "init"]
    /\ budget = [creates |-> 0, others |-> 0]
    /\ call = NoCall
    /\ result = <<>>

NextSync ==
    \/ Tick
    \/ mountEffects
    \/ saveEffect
    \/ dispatchAction
    \/ applyAction
    \/ sendAction
    \/ timerAction

\* React runs the effects of every commit, and the event loop the callback of
\* every timer that is due
SpecSync ==
    /\ InitSync
    /\ [][NextSync]_vars
    /\ WF_vars(mountEffects) /\ WF_vars(saveEffect) /\ WF_vars(timerAction)

----------------------------------------------------------------------------
(* The claims *)

\* a step that dispatched an action (time passing dispatches nothing)
Dispatched == budget' # budget

TasksWithId(s, id) == { i \in 1..Len(s.tasks) : s.tasks[i].id = id }

\* C1: in every state reachable through reducer actions, the load of a
\* sanitized persisted payload among them, the activity log holds at most
\* ACTIVITY_LIMIT entries
C1_ActivityWithinLimit == Len(state.activity) <= ACTIVITY_LIMIT

\* C2: under both sort directions and under every search term and priority
\* filter, filterAndSortTasks puts every task with a non-empty dueDate before
\* every task with an empty dueDate
C2_EmptyDueDateLast ==
    call.fn = "filterAndSortTasks" =>
        \A i, j \in 1..Len(result) :
            result[i].dueDate # "" /\ result[j].dueDate = "" => i < j

\* C3: a move whose id no task has, or whose target is the status the task
\* with that id already has (every task with that id, should several share
\* it), returns the state unchanged: tasks, activity, messages, documents and
\* settings are what they were and no activity entry is added
C3_MoveNoOp ==
    [][ (/\ Dispatched
         /\ last'.type = "move"
         /\ \A i \in TasksWithId(state, last'.payload.id) :
               state.tasks[i].status = last'.payload.status)
        => /\ state'.tasks = state.tasks
           /\ state'.activity = state.activity
           /\ state'.messages = state.messages
           /\ state'.documents = state.documents
           /\ state'.settings = state.settings ]_vars

\* a task on the board was moved to the status it had
C3_Witness ==
    /\ last.type = "move"
    /\ state.activity = <<>>
    /\ \E i \in 1..Len(state.tasks) :
          state.tasks[i].id = last.payload.id /\ state.tasks[i].status = last.payload.status

\* C4: delete removes every task with the id and keeps the other tasks in
\* their order; it prepends a 'deleted' entry carrying the removed task's
\* title if and only if a task with the id existed, so for an absent id the
\* task list and the activity log are what they were
C4_Delete ==
    [][ (Dispatched /\ last'.type = "delete")
        => LET id == last'.payload.id
               removed == TasksWithId(state, id)
               kept == SelectSeq(state.tasks, LAMBDA task : task.id # id)
           IN  /\ state'.tasks = kept
               /\ IF removed # {}
                  THEN /\ state'.activity # <<>>
                       /\ state'.activity[1].action = "deleted"
                       /\ \E i \in removed : state'.activity[1].taskTitle = state.tasks[i].title
                       /\ \A i \in 1..Len(state.activity) :
                             state.activity[i].id # state'.activity[1].id
                       /\ Tail(state'.activity) = Slice(state.activity, ACTIVITY_LIMIT - 1)
                  ELSE /\ state'.tasks = state.tasks
                       /\ state'.activity = state.activity ]_vars

\* a task was deleted from a board that keeps another one
C4_Witness ==
    /\ last.type = "delete"
    /\ state.tasks # <<>>
    /\ state.activity # <<>>
    /\ state.activity[1].action = "deleted"
    /\ TasksWithId(state, last.payload.id) = {}

\* the dispatches the claims call activity-producing
ProducesActivity(s, a) ==
    \/ a.type \in {"create", "edit", "addMessage", "addDocument"}
    \/ a.type \in {"delete", "toggleFavorite"} /\ TasksWithId(s, a.payload.id) # {}
    \/ /\ a.type = "move"
       /\ TasksWithId(s, a.payload.id) # {}
       /\ \A i \in TasksWithId(s, a.payload.id) : s.tasks[i].status # a.payload.status

\* the log of the first MaxCreates creations on an empty log, newest first,
\* without the entry of the first one
AfterCapPlusOne ==
    (budget.creates = MaxCreates /\ budget.others = 0)
    => /\ Len(state.activity) = ACTIVITY_LIMIT
       /\ \A i \in 1..ACTIVITY_LIMIT :
             /\ state.activity[i].id = randomUUID(MaxCreates + 1 - i)
             /\ state.activity[i].action = "created"
       /\ \A i \in 1..Len(state.activity) : state.activity[i].id # randomUUID(1)

\* C5: every activity-producing transition puts the new entry at index 0 and
\* keeps the earlier entries in their order, dropping entries only from the
\* tail and only when the length would exceed the cap; after cap+1 creations
\* on an empty log the entry of the first creation is the one missing
C5_PrependAndEvictOldest ==
    /\ [][ (Dispatched /\ ProducesActivity(state, last'))
           => /\ state'.activity # <<>>
              /\ \A i \in 1..Len(state.activity) :
                    state.activity[i].id # state'.activity[1].id
              /\ Len(state'.activity) = Min(Len(state.activity) + 1, ACTIVITY_LIMIT)
              /\ \A i \in 2..Len(state'.activity) :
                    state'.activity[i] = state.activity[i - 1] ]_vars
    /\ []AfterCapPlusOne

\* cap+1 tasks were created on the empty log and nothing else was done
C5_Witness ==
    /\ budget.creates = MaxCreates
    /\ budget.others = 0
    /\ Len(state.tasks) = MaxCreates
    /\ state.activity[1].id = randomUUID(MaxCreates)

\* C6: the newest entry describes the action: create gives 'created' with the
\* task's title; an effective move gives 'moved' with the task's title and the
\* details 'OLD -> NEW', the status before the move and the target, both
\* uppercased; delete of an existing task gives 'deleted' with the removed
\* task's title, and the task is no longer in tasks
C6_NewestEntryDescribesAction ==
    [][ (Dispatched /\ ProducesActivity(state, last')
                    /\ last'.type \in {"create", "move", "delete"})
        => LET a == last'
               entry == state'.activity[1]
           IN  /\ state'.activity # <<>>
               /\ \A i \in 1..Len(state.activity) : state.activity[i].id # entry.id
               /\ a.type = "create" =>
                     entry.action = "created" /\ entry.taskTitle = a.payload.title
               /\ a.type = "move" =>
                     /\ entry.action = "moved"
                     /\ \E i \in TasksWithId(state, a.payload.id) :
                           /\ entry.taskTitle = state.tasks[i].title
                           /\ entry.details = ToUpperCase(state.tasks[i].status) \o " -> "
                                                \o ToUpperCase(a.payload.status)
                     /\ entry.details \in
                           { old \o " -> " \o new : old, new \in {"TODO", "DOING", "DONE"} }
               /\ a.type = "delete" =>
                     /\ entry.action = "deleted"
                     /\ \E i \in TasksWithId(state, a.payload.id) :
                           entry.taskTitle = state.tasks[i].title
                     /\ TasksWithId(state', a.payload.id) = {} ]_vars

\* a task was created and then moved from todo to done
C6_Witness ==
    /\ last.type = "move"
    /\ Len(state.activity) = 2
    /\ state.activity[1].action = "moved"
    /\ state.activity[1].details = "TODO -> DONE"
    /\ state.activity[2].action = "created"
    /\ state.activity[2].taskTitle = state.activity[1].taskTitle

\* C7: moveTaskStatus returns a list of the same length and order in which
\* the task with the id has the target status, its other fields and every
\* other task being equal to the input; the result equals the input when no
\* task has the id
C7_MoveTaskStatusFrame ==
    call.fn = "moveTaskStatus" =>
        /\ Len(result) = Len(call.tasks)
        /\ \A i \in 1..Len(call.tasks) :
              IF call.tasks[i].id = call.taskId
              THEN /\ result[i].status = call.nextStatus
                   /\ \A field \in DOMAIN call.tasks[i] \ {"status"} :
                         result[i][field] = call.tasks[i][field]
                   /\ DOMAIN result[i] = DOMAIN call.tasks[i]
              ELSE result[i] = call.tasks[i]
        /\ (\A i \in 1..Len(call.tasks) : call.tasks[i].id # call.taskId)
              => result = call.tasks

\* a favorite task was moved to another status in a list that holds another
\* task as well
C7_Witness ==
    /\ call.fn = "moveTaskStatus"
    /\ Len(call.tasks) = 2
    /\ call.tasks[1].id = call.taskId
    /\ call.tasks[1].favorite
    /\ call.tasks[1].status # call.nextStatus
    /\ call.tasks[2].id # call.taskId
    /\ result # call.tasks

\* C8: in every reachable board state, those obtained by loading a persisted
\* payload among them, no two tasks have the same id
C8_UniqueTaskIds ==
    \A i, j \in 1..Len(state.tasks) : i # j => state.tasks[i].id # state.tasks[j].id

\* C9: under edit, move and toggleFavorite a task keeps its id and its
\* createdAt, and an edit keeps its favorite as well
C9_IdentityPreserved ==
    [][ (Dispatched /\ last'.type \in {"edit", "move", "toggleFavorite"})
        => /\ Len(state'.tasks) = Len(state.tasks)
           /\ \A i \in 1..Len(state.tasks) :
                 /\ state'.tasks[i].id = state.tasks[i].id
                 /\ state'.tasks[i].createdAt = state.tasks[i].createdAt
                 /\ last'.type = "edit" => state'.tasks[i].favorite = state.tasks[i].favorite
       ]_vars

\* C10: in every reachable state, one produced by loading a payload whose
\* tasks carry a missing or unknown status among them, every task's status is
\* one of todo, doing, done
C10_StatusInColumns ==
    \A i \in 1..Len(state.tasks) : state.tasks[i].status \in {"todo", "doing", "done"}

\* the tasks stored with an unknown status and with none are on the board,
\* and a task was moved since
C10_Witness ==
    /\ last.type = "move"
    /\ \E i \in 1..Len(state.tasks) :
          state.tasks[i].id \in {randomId("main", 1), "3"}

\* C11: after saveBoardState(s) with both writes succeeding, loadBoardState
\* returns a state equal to s, for every s built from valid entities
C11_RoundTrip ==
    (/\ call.fn = "loadBoardState"
     /\ call.read = "ok"
     /\ last.type = "save"
     /\ last.outcome = "ok")
    => result = Returned(state)

\* a board with tasks, activity with and without details, messages, a
\* document and settings other than the defaults was saved and loaded
C11_Witness ==
    /\ call.fn = "loadBoardState"
    /\ call.read = "ok"
    /\ last.type = "save"
    /\ last.outcome = "ok"
    /\ Len(state.tasks) = 2
    /\ Len(state.activity) = 2
    /\ state.settings # DefaultSettings
    /\ ~result.raised
    /\ result.value.tasks = state.tasks

\* the board object of a stored JSON text: its state property, or the text
\* itself in the legacy format
StoredBoardOf(item) ==
    IF item.json.t = "object" /\ "state" \in DOMAIN item.json.o
    THEN Get(item.json, "state") ELSE item.json

\* the elements of a stored property that is an array
Elements(v) == IF v.t = "array" THEN v.a ELSE <<>>

\* the value of a stored scalar field, or the default when it is missing or
\* of another type
FieldOr(obj, key, tag, default) ==
    IF Get(obj, key).t # tag THEN default
    ELSE IF tag = "boolean" THEN Get(obj, key).b ELSE Get(obj, key).s

\* C12: when a payload is loaded, the elements of tasks, activity, messages
\* and documents that fail the shape check are absent, the well-formed
\* elements are retained in order, and missing scalar fields of the settings
\* and of retained elements take the defaults
C12_DropsMalformedKeepsRest ==
    (/\ call.fn = "loadBoardState"
     /\ call.read = "ok"
     /\ call.store.backup = NoItem
     /\ call.store.main.k = "text"
     /\ IsObject(StoredBoardOf(call.store.main)))
    => LET raw == StoredBoardOf(call.store.main)
           tasks == SelectSeq(Elements(Get(raw, "tasks")), LAMBDA e : e.t = "object")
           loaded == result.value
       IN  /\ ~result.raised
           /\ Len(loaded.tasks) = Len(tasks)
           /\ \A i \in 1..Len(tasks) :
                 /\ loaded.tasks[i].title = FieldOr(tasks[i], "title", "string", "Untitled Task")
                 /\ loaded.tasks[i].description = FieldOr(tasks[i], "description", "string", "")
                 /\ loaded.tasks[i].dueDate = FieldOr(tasks[i], "dueDate", "string", "")
                 /\ loaded.tasks[i].project =
                       IF FieldOr(tasks[i], "project", "string", "") \in {"", "  "}
                       THEN "General" ELSE FieldOr(tasks[i], "project", "string", "")
                 /\ loaded.tasks[i].favorite = FieldOr(tasks[i], "favorite", "boolean", FALSE)
                 /\ IsString(Get(tasks[i], "id")) => loaded.tasks[i].id = Get(tasks[i], "id").s
                 /\ loaded.tasks[i].status =
                       IF FieldOr(tasks[i], "status", "string", "todo") \in {"todo", "doing", "done"}
                       THEN FieldOr(tasks[i], "status", "string", "todo") ELSE "todo"
                 /\ loaded.tasks[i].priority =
                       IF FieldOr(tasks[i], "priority", "string", "medium") \in {"low", "medium", "high"}
                       THEN FieldOr(tasks[i], "priority", "string", "medium") ELSE "medium"
           /\ loaded.activity =
                 Map(SelectSeq(Elements(Get(raw, "activity")), IsActivityItem), AsActivityItem)
           /\ loaded.messages =
                 Map(SelectSeq(Elements(Get(raw, "messages")), IsChatMessage), AsChatMessage)
           /\ loaded.documents =
                 Map(SelectSeq(Elements(Get(raw, "documents")), IsDocumentItem), AsDocumentItem)
           /\ loaded.settings =
                 [compactCards |-> FieldOr(Get(raw, "settings"), "compactCards", "boolean", FALSE),
                  showCompleted |-> FieldOr(Get(raw, "settings"), "showCompleted", "boolean", TRUE),
                  accent |-> IF FieldOr(Get(raw, "settings"), "accent", "string", "teal")
                                   \in {"teal", "blue", "orange"}
                             THEN FieldOr(Get(raw, "settings"), "accent", "string", "teal")
                             ELSE "teal"]

\* the shape of a BoardState
IsBoardState(s) ==
    /\ DOMAIN s = {"tasks", "activity", "messages", "documents", "settings"}
    /\ \A i \in 1..Len(s.tasks) :
          /\ DOMAIN s.tasks[i] = {"id", "project", "title", "description", "priority",
                                  "dueDate", "tags", "status", "createdAt", "favorite"}
          /\ s.tasks[i].status \in {"todo", "doing", "done"}
          /\ s.tasks[i].priority \in {"low", "medium", "high"}
          /\ s.tasks[i].favorite \in BOOLEAN
    /\ \A i \in 1..Len(s.activity) : s.activity[i].action \in ActivityActions
    /\ \A i \in 1..Len(s.messages) : s.messages[i].sender \in {"me", "teammate"}
    /\ DOMAIN s.settings = {"compactCards", "showCompleted", "accent"}
    /\ s.settings.accent \in {"teal", "blue", "orange"}

\* C13: loadBoardState and saveBoardState never raise, whatever is stored and
\* whether or not a read or a write fails; load returns a structurally valid
\* BoardState, the empty one when nothing readable is stored
C13_NeverRaises ==
    /\ call.fn \in {"loadBoardState", "saveBoardState"} => ~result.raised
    /\ (call.fn = "loadBoardState" /\ ~result.raised) =>
          /\ IsBoardState(result.value)
          /\ (call.store.main \in {NoItem, Garbage} /\ call.store.backup \in {NoItem, Garbage})
                => result.value = emptyBoardState

\* C14: when both keys hold a parsable snapshot, loadBoardState returns the
\* state of the one with more tasks and, the counts being equal, of the one
\* with the later updatedAt; when one key only is parsable, the state of that
\* one
C14_PrefersMoreTasksThenNewer ==
    (call.fn = "loadBoardState" /\ call.read = "ok")
    => LET main == parsePersistedBoard(call.store.main, "main", Now)
           backup == parsePersistedBoard(call.store.backup, "backup", Now)
           Later(a, b) == DateGetTime(a.updatedAt).n > DateGetTime(b.updatedAt).n
       IN  /\ ~result.raised
           /\ (main # <<>> /\ backup = <<>>) => result.value = main[1].state
           /\ (main = <<>> /\ backup # <<>>) => result.value = backup[1].state
           /\ (main # <<>> /\ backup # <<>>) =>
                 /\ Len(main[1].state.tasks) > Len(backup[1].state.tasks)
                       => result.value = main[1].state
                 /\ Len(backup[1].state.tasks) > Len(main[1].state.tasks)
                       => result.value = backup[1].state
                 /\ (/\ Len(main[1].state.tasks) = Len(backup[1].state.tasks)
                     /\ Later(main[1], backup[1])) => result.value = main[1].state
                 /\ (/\ Len(main[1].state.tasks) = Len(backup[1].state.tasks)
                     /\ Later(backup[1], main[1])) => result.value = backup[1].state

\* the backup holds more tasks than the newer primary snapshot, and was
\* loaded
C14_Witness ==
    /\ call.fn = "loadBoardState"
    /\ call.read = "ok"
    /\ call.store.main = Versioned(StoredBoard(<<StoredTask2>>, <<>>), "2026-02-10T09:00:00.000Z")
    /\ call.store.backup =
          Versioned(StoredBoard(<<StoredTask1, StoredTask2>>, <<>>), "2026-02-09T10:00:00.000Z")
    /\ Len(result.value.tasks) = 2

\* C15: reset empties tasks and activity and leaves messages, documents and
\* settings exactly as they were, from any state
C15_Reset ==
    [][ (Dispatched /\ last'.type = "reset")
        => /\ state'.tasks = <<>>
           /\ state'.activity = <<>>
           /\ state'.messages = state.messages
           /\ state'.documents = state.documents
           /\ state'.settings = state.settings ]_vars

\* a board loaded with messages, a document and settings of its own was reset
C15_Witness ==
    /\ last.type = "reset"
    /\ state.tasks = <<>>
    /\ state.activity = <<>>
    /\ state.messages # <<>>
    /\ state.documents # <<>>
    /\ state.settings # DefaultSettings

\* C16: toggleFavorite on an existing task negates that task's favorite and
\* changes no other field of it and no other task, and prepends a 'favorited'
\* entry whose details are 'Added to favorites' exactly when the new value is
\* true and 'Removed from favorites' otherwise; for an id no task has the
\* state is returned unchanged
C16_ToggleFavorite ==
    [][ (Dispatched /\ last'.type = "toggleFavorite")
        => LET id == last'.payload.id
               entry == state'.activity[1]
           IN  IF TasksWithId(state, id) = {}
               THEN state' = state
               ELSE /\ Len(state'.tasks) = Len(state.tasks)
                    /\ \A i \in 1..Len(state.tasks) :
                          state'.tasks[i] =
                             IF state.tasks[i].id = id
                             THEN [state.tasks[i] EXCEPT !.favorite = ~state.tasks[i].favorite]
                             ELSE state.tasks[i]
                    /\ state'.activity # <<>>
                    /\ entry.action = "favorited"
                    /\ \A i \in 1..Len(state.activity) : state.activity[i].id # entry.id
                    /\ Tail(state'.activity) = Slice(state.activity, ACTIVITY_LIMIT - 1)
                    /\ \A i \in TasksWithId(state, id) :
                          /\ entry.taskTitle = state.tasks[i].title
                          /\ entry.details = IF state'.tasks[i].favorite
                                             THEN "Added to favorites"
                                             ELSE "Removed from favorites"
                    /\ state'.messages = state.messages
                    /\ state'.documents = state.documents
                    /\ state'.settings = state.settings ]_vars

\* a prefix of a sequence
IsPrefix(s, t) == Len(s) <= Len(t) /\ SubSeq(t, 1, Len(s)) = s

\* C19: messages are append-only: under every reducer action other than load
\* the earlier message list is a prefix of the later one, and only addMessage
\* lengthens it, by exactly one element at the end
C19_MessagesAppendOnly ==
    [][ (Dispatched /\ last'.type # "load")
        => /\ IsPrefix(state.messages, state'.messages)
           /\ IF last'.type = "addMessage"
              THEN state'.messages = Append(state.messages, last'.payload)
              ELSE state'.messages = state.messages ]_vars

\* a message was added to a board that held one
C19_Witness ==
    /\ last.type = "addMessage"
    /\ Len(state.messages) = 2
    /\ state.messages[2] = last.payload
    /\ state.messages[1] # last.payload

\* C20: submitting the create form or the edit form with a title that is
\* empty after trimming sets the form error 'Title is required.' and applies
\* no transition: tasks and activity are unchanged
C20_BlankTitleRejected ==
    [][ (\/ \E title \in {"", "  "}, status \in TaskStatus, activeProject \in ActiveProjects :
               addTaskWith(title, status, activeProject)
         \/ \E title \in {"", "  "}, status \in TaskStatus, project \in {"General", "  "} :
               saveEditedTaskWith(title, status, project))
        => /\ page'.formError = "Title is required."
           /\ state'.tasks = state.tasks
           /\ state'.activity = state.activity
           /\ last' = last ]_vars

\* the edit form of a task on the board was submitted with a blank title
C20_Witness ==
    /\ page.formError = "Title is required."
    /\ editDraft.open
    /\ editDraft.draft.title = "  "
    /\ \E i \in 1..Len(state.tasks) :
          state.tasks[i].id = editDraft.draft.id /\ state.tasks[i].title # "  "

\* C17: every sendMessage with a non-empty text appends one 'me' message and
\* is eventually followed by exactly one 'teammate' message 'Received: ' plus
\* the first 48 characters of the text; the replies never outnumber the 'me'
\* messages, each reply comes after its message, and the replies come in the
\* order of the sends
C17_RepliesFollowSends ==
    LET sent == MadeAt("me")
        replies == MadeAt("teammate")
        textOf(i) == state.messages[i].text
    IN  /\ Cardinality(replies) + Len(page.timers) = Cardinality(sent)
        /\ \A k \in 1..Cardinality(replies) :
              /\ Kth(sent, k) < Kth(replies, k)
              /\ textOf(Kth(replies, k)) =
                    "Received: " \o SubSeq(textOf(Kth(sent, k)), 1,
                                           Min(48, Len(textOf(Kth(sent, k)))))
        /\ \A j \in 1..Len(page.timers) :
              page.timers[j].text = textOf(Kth(sent, Cardinality(replies) + j))

C17_SendAppendsOne ==
    \A messageInput \in MessageInputs :
        sendMessageWith(messageInput) /\ Trim(messageInput) # ""
        => /\ Len(state'.messages) = Len(state.messages) + 1
           /\ SubSeq(state'.messages, 1, Len(state.messages)) = state.messages
           /\ state'.messages[Len(state'.messages)].sender = "me"
           /\ state'.messages[Len(state'.messages)].text = Trim(messageInput)

C17_EveryMessageAnswered ==
    /\ []C17_RepliesFollowSends
    /\ [][C17_SendAppendsOne]_vars
    /\ \A k \in 1..MaxSends :
          (Cardinality(MadeAt("me")) >= k) ~> (Cardinality(MadeAt("teammate")) >= k)

\* two messages were sent before either reply came, the second longer than 48
\* characters
C17_Witness ==
    /\ Len(state.messages) >= 4
    /\ LET n == Len(state.messages)
       IN  /\ state.messages[n - 3].sender = "me" /\ state.messages[n - 3].text = "hello"
           /\ state.messages[n - 2].sender = "me" /\ state.messages[n - 2].text = LongText
           /\ state.messages[n - 1].text = "Received: hello"
           /\ state.messages[n].text =
                 "Received: Please review the sprint plan before the standup"
    /\ MadeAt("teammate") = {Len(state.messages) - 1, Len(state.messages)}

\* C18: when reset, clearActivity or any other action is dispatched between a
\* sendMessage and the run of its timer, the reply is still applied as an
\* ordinary addMessage: the callback can always run, messages gains the reply
\* after all messages present, tasks stay as they were left, and the only
\* activity entry added is the 'message' entry of the reply
C18_ReplyAddsMessage ==
    fireReply
    => LET reply == last'.payload
       IN  /\ last'.type = "addMessage"
           /\ reply.sender = "teammate"
           /\ state'.messages = Append(state.messages, reply)
           /\ state'.tasks = state.tasks
           /\ state'.documents = state.documents
           /\ state'.settings = state.settings
           /\ Len(state'.activity) = Min(Len(state.activity) + 1, ACTIVITY_LIMIT)
           /\ Tail(state'.activity) = Slice(state.activity, ACTIVITY_LIMIT - 1)
           /\ state'.activity[1].action = "message"
           /\ state'.activity[1].taskTitle = "Teammate"
           /\ state'.activity[1].details = reply.text

C18_ReplyAfterIntervening ==
    /\ [](page.timers # <<>> => ENABLED fireReply)
    /\ [][C18_ReplyAddsMessage]_vars

\* a task was created, a message was sent, the board was reset and then the
\* reply came: the log holds the reply's entry only
C18_Witness ==
    /\ budget = [creates |-> 1, others |-> 1]
    /\ state.tasks = <<>>
    /\ Cardinality(MadeAt("me")) = 1
    /\ Cardinality(MadeAt("teammate")) = 1
    /\ page.timers = <<>>
    /\ Len(state.activity) = 1
    /\ state.activity[1].taskTitle = "Teammate"

\* the number of times a value occurs in a list
Count(seq, x) == Cardinality({ i \in 1..Len(seq) : seq[i] = x })

\* C21: filterAndSortTasks returns exactly the input tasks, each as often as
\* it was given, whose title contains the trimmed search term without regard
\* to case (every task when the term is blank) and whose priority equals the
\* filter (every priority under 'all'); description, tags and project have no
\* part in the match
C21_FilterByTitleAndPriority ==
    call.fn = "filterAndSortTasks"
    => LET term == ToLowerCase(Trim(call.searchTerm))
           Matches(task) ==
               /\ term = "" \/ Contains(ToLowerCase(task.title), term)
               /\ call.priority = "all" \/ task.priority = call.priority
       IN  /\ \A i \in 1..Len(result) : Count(call.tasks, result[i]) > 0
           /\ \A i \in 1..Len(call.tasks) :
                 Count(result, call.tasks[i]) =
                    IF Matches(call.tasks[i]) THEN Count(call.tasks, call.tasks[i]) ELSE 0

\* the search for 'DOCS' under 'all' drops a task that has 'docs' in its
\* description, tag and project but not in its title, and keeps the task
\* 'Write docs' both times it was given
C21_Witness ==
    /\ call.fn = "filterAndSortTasks"
    /\ call.searchTerm = "DOCS" /\ call.priority = "all"
    /\ Len(call.tasks) = 3 /\ Len(result) = 2
    /\ result[1] = result[2]
    /\ result[1].title = "Write docs"
    /\ \E i \in 1..3 : call.tasks[i].description = "Update docs"

\* C22: in the output of filterAndSortTasks two tasks with the same due date,
\* or both without one, stand in ascending createdAt order under both
\* directions; two tasks with different non-empty due dates stand earlier date
\* first under 'asc' and later date first under 'desc'
C22_OrderWithinOutput ==
    call.fn = "filterAndSortTasks"
    => \A i, j \in 1..Len(result) :
          i < j =>
            LET a == result[i]
                b == result[j]
            IN  /\ a.dueDate = b.dueDate
                   => DateGetTime(a.createdAt).n <= DateGetTime(b.createdAt).n
                /\ (a.dueDate # b.dueDate /\ a.dueDate # "" /\ b.dueDate # "")
                   => IF call.sortDirection = "asc"
                      THEN DateGetTime(a.dueDate).n < DateGetTime(b.dueDate).n
                      ELSE DateGetTime(a.dueDate).n > DateGetTime(b.dueDate).n

\* a 'desc' call given the later-created of two tasks of one date first, then
\* a task of an earlier date: the output has the later date first and, within
\* it, the earlier-created task first
C22_Witness ==
    /\ call.fn = "filterAndSortTasks" /\ call.sortDirection = "desc"
    /\ Len(call.tasks) = 3 /\ Len(result) = 3
    /\ call.tasks[1].dueDate = "2026-02-18"
    /\ call.tasks[2].dueDate = "2026-02-20" /\ call.tasks[3].dueDate = "2026-02-20"
    /\ call.tasks[2].createdAt = "2026-02-10T10:00:00.000Z"
    /\ call.tasks[3].createdAt = "2026-02-10T09:00:00.000Z"
    /\ result = <<call.tasks[3], call.tasks[2], call.tasks[1]>>

\* C23: the section-scoped list is the base filtered list restricted by
\* section: inbox keeps exactly the tasks with status todo or priority high,
\* favorites exactly the tasks with favorite true, portfolios the tasks of the
\* active project when one is selected and everything otherwise; home,
\* my_tasks and goals keep everything
C23_SectionScope ==
    call.fn = "sectionTasks"
    => LET base == sectionBase(call.filteredTasks, call.settings, call.projectFilter,
                               call.activeProject, call.globalSearchTerm)
           Kept(task) ==
               CASE call.activeSection = "inbox" ->
                       task.status = "todo" \/ task.priority = "high"
                 [] call.activeSection = "favorites" -> task.favorite
                 [] call.activeSection = "portfolios" ->
                       call.activeProject = NoProject \/ task.project = call.activeProject
                 [] OTHER -> TRUE
       IN  result = SelectSeq(base, Kept)

\* the same for the first variant of the page alone
C23_FirstVariant == call.fn = "sectionTasks" /\ call.variant = "first" => C23_SectionScope

\* C24: clearActivity, removeActivity, removeDocument and updateSettings add
\* no activity entry and change their own collection only: clearActivity
\* empties activity; removeActivity removes the entries with the given id
\* and keeps the rest in order; removeDocument removes the documents with the
\* given id; updateSettings overwrites the settings keys of the partial and no
\* other; tasks and messages are unchanged by all four
C24_OwnCollectionOnly ==
    [][ (Dispatched /\ last'.type \in {"clearActivity", "removeActivity",
                                       "removeDocument", "updateSettings"})
        => /\ state'.tasks = state.tasks
           /\ state'.messages = state.messages
           /\ last'.type = "clearActivity"
              => /\ state'.activity = <<>>
                 /\ state'.documents = state.documents
                 /\ state'.settings = state.settings
           /\ last'.type = "removeActivity"
              => /\ state'.activity =
                       SelectSeq(state.activity, LAMBDA item : item.id # last'.payload.id)
                 /\ state'.documents = state.documents
                 /\ state'.settings = state.settings
           /\ last'.type = "removeDocument"
              => /\ state'.documents =
                       SelectSeq(state.documents, LAMBDA doc : doc.id # last'.payload.id)
                 /\ state'.activity = state.activity
                 /\ state'.settings = state.settings
           /\ last'.type = "updateSettings"
              => /\ DOMAIN state'.settings = DOMAIN state.settings
                 /\ \A key \in DOMAIN state.settings :
                       state'.settings[key] =
                          IF key \in DOMAIN last'.payload THEN last'.payload[key]
                          ELSE state.settings[key]
                 /\ state'.activity = state.activity
                 /\ state'.documents = state.documents ]_vars

\* the accent was set on a board loaded with compact cards, tasks and a log
C24_Witness ==
    /\ last.type = "updateSettings"
    /\ last.payload = [accent |-> "blue"]
    /\ state.settings = [compactCards |-> TRUE, showCompleted |-> TRUE, accent |-> "blue"]
    /\ state.tasks # <<>>
    /\ state.activity # <<>>
    /\ state.messages # <<>>

\* C25: in every reachable state no task has a blank project: a task created
\* or edited with a blank project field and a task loaded with a missing or
\* blank project carry 'General' or the existing or active project, never an
\* empty or whitespace-only label
C25_NoBlankProject ==
    \A i \in 1..Len(state.tasks) : Trim(state.tasks[i].project) # ""

\* C26: the route guard sends every request for a path under /board to /login
\* unless the auth cookie has the value '1', and every request for /login to
\* /board when it has; after logout has cleared the cookie, /board is sent to
\* /login again until the next sign-in the form accepts
C26_GuardedRequest ==
    \A pathname \in RequestPaths :
        requestWith(pathname)
        => LET hasAuth == CookieValue(page.cookie) = "1"
           IN  /\ StartsWith(pathname, "/board")
                  => page'.path = IF hasAuth THEN pathname ELSE "/login"
               /\ pathname = "/login"
                  => page'.path = IF hasAuth THEN "/board" ELSE "/login"
               /\ page'.cookie = page.cookie

C26_CookieLifecycle ==
    /\ logout => ~page'.cookie.set /\ page'.path = "/login"
    /\ (CookieValue(page.cookie) # "1" /\ CookieValue(page'.cookie) = "1")
       => (onSubmit \/ onSubmitSecond) /\ page'.error = ""

C27_Accepted ==
    /\ ToLowerCase(Trim(page.email)) = DEMO_CREDENTIALS.email
    /\ page.password = DEMO_CREDENTIALS.password

C27_OnlyDemoCredentials ==
    [][ (onSubmit \/ onSubmitSecond)
        => IF C27_Accepted
           THEN CookieValue(page'.cookie) = "1" /\ page'.path = "/board"
           ELSE page'.error # "" /\ ~page'.cookie.set /\ page'.path = "/login" ]_vars

\* the same for the second variant of the sign-in page alone
C27_SecondVariant ==
    [][ onSubmitSecond
        => IF C27_Accepted
           THEN CookieValue(page'.cookie) = "1" /\ page'.path = "/board"
           ELSE page'.error # "" /\ ~page'.cookie.set /\ page'.path = "/login" ]_vars

\* C28: create yields a task list whose first element is the new task and
\* whose remainder is the list before, and a task built by the create form
\* has favorite false; edit yields a list of the same length and order in
\* which exactly the tasks with the payload's id are replaced by the payload
C28_CreateAndEditStep ==
    /\ (Dispatched /\ last'.type = "create")
       => /\ state'.tasks # <<>>
          /\ Head(state'.tasks) = last'.payload
          /\ Tail(state'.tasks) = state.tasks
    /\ (Dispatched /\ last'.type = "edit")
       => /\ Len(state'.tasks) = Len(state.tasks)
          /\ \A i \in 1..Len(state.tasks) :
                state'.tasks[i] = IF state.tasks[i].id = last'.payload.id
                                  THEN last'.payload ELSE state.tasks[i]

C28_FormTaskNotFavorite ==
    \A title \in {"Write docs", " Write docs "}, status \in TaskStatus,
       activeProject \in ActiveProjects :
        buildTaskFromDraft(state, [emptyDraft EXCEPT !.title = title, !.status = status],
                           activeProject, randomUUID(uuid + 1), Now).favorite = FALSE

C28_CreatePrependsEditReplaces ==
    /\ [][C28_CreateAndEditStep]_vars
    /\ []C28_FormTaskNotFavorite

\* a board of two tasks was loaded and its first task edited: the payload
\* stands in its place, the second task is untouched
C28_Witness ==
    /\ last.type = "edit"
    /\ Len(state.tasks) = 2
    /\ state.tasks[1] = last.payload
    /\ state.tasks[2].id = "2" /\ state.tasks[2].title = "Fix bug"

\* C29: column grouping is a partition: every task of the section-scoped
\* list is in exactly one of the columns todo, doing, done, the one its status
\* names, and within a column the tasks keep the order they had in the list
C29_ColumnsPartition ==
    call.fn = "groupedColumns"
    => /\ DOMAIN result = {"todo", "doing", "done"}
       /\ \A i \in 1..Len(call.sectionTasks) :
             LET task == call.sectionTasks[i]
             IN  \A status \in DOMAIN result :
                    Count(result[status], task) =
                       IF status = task.status THEN Count(call.sectionTasks, task) ELSE 0
       /\ \A status \in DOMAIN result :
             /\ \A i \in 1..Len(result[status]) : result[status][i].status = status
             /\ result[status] =
                   SelectSeq(call.sectionTasks,
                             LAMBDA task : Count(result[status], task) > 0)

\* a list of a todo, a doing and another todo task: the todo column holds the
\* first and the third in that order
C29_Witness ==
    /\ call.fn = "groupedColumns"
    /\ Len(call.sectionTasks) = 3
    /\ call.sectionTasks[1] # call.sectionTasks[3]
    /\ result["todo"] = <<call.sectionTasks[1], call.sectionTasks[3]>>
    /\ result["doing"] = <<call.sectionTasks[2]>>
    /\ result["done"] = <<>>

\* C30: due-date bucketing puts every task of the calendar scope with a
\* non-empty dueDate into exactly one bucket, the one keyed by its dueDate
\* string, in scope order, and no task with an empty dueDate into any bucket;
\* no bucket is empty
C30_DueDateBuckets ==
    call.fn = "tasksByDueDate"
    => /\ \A key \in DOMAIN result :
             /\ result[key] # <<>>
             /\ \A i \in 1..Len(result[key]) :
                   result[key][i].dueDate = key /\ result[key][i].dueDate # ""
             /\ result[key] =
                   SelectSeq(call.scope, LAMBDA task : Count(result[key], task) > 0)
       /\ \A i \in 1..Len(call.scope) :
             LET task == call.scope[i]
             IN  \A key \in DOMAIN result \cup {task.dueDate} :
                    (IF key \in DOMAIN result THEN Count(result[key], task) ELSE 0) =
                       IF key = task.dueDate /\ task.dueDate # ""
                       THEN Count(call.scope, task) ELSE 0

\* a project's scope of a dated task, an undated one and another task of the
\* same date: one bucket with the two dated tasks in scope order
C30_Witness ==
    /\ call.fn = "tasksByDueDate"
    /\ call.activeProject = "Design"
    /\ Len(call.scope) = 3
    /\ call.scope[2].dueDate = ""
    /\ call.scope[1] # call.scope[3]
    /\ DOMAIN result = {"2026-02-20"}
    /\ result["2026-02-20"] = <<call.scope[1], call.scope[3]>>

\* C31: the summary is computed over the whole board, or over the tasks of
\* the active project when one is selected, whatever the search, priority and
\* section filters are: total is the number of tasks of that scope, todo,
\* doing, done and favorites count its tasks of that status and its favorites,
\* total = todo + doing + done, and favorites is at most total
C31_SummaryScope ==
    call.fn = "summary"
    => LET InScope(task) == call.activeProject = NoProject \/ task.project = call.activeProject
           NumberOf(Kept(_)) ==
               Cardinality({ i \in 1..Len(call.tasks) :
                               InScope(call.tasks[i]) /\ Kept(call.tasks[i]) })
       IN  /\ result.total = NumberOf(LAMBDA task : TRUE)
           /\ result.todo = NumberOf(LAMBDA task : task.status = "todo")
           /\ result.doing = NumberOf(LAMBDA task : task.status = "doing")
           /\ result.done = NumberOf(LAMBDA task : task.status = "done")
           /\ result.favorites = NumberOf(LAMBDA task : task.favorite)
           /\ result.total = result.todo + result.doing + result.done
           /\ result.favorites <= result.total

\* the same for the first variant of the page alone
C31_FirstVariant == call.fn = "summary" /\ call.variant = "first" => C31_SummaryScope

\* in both variants the counts add up
C31_CountsAddUp ==
    call.fn = "summary"
    => /\ result.total = result.todo + result.doing + result.done
       /\ result.favorites <= result.total

\* C32: with writes succeeding, every state change (dispatched directly,
\* through applyBoardAction or by the reply timer) is followed by a save of
\* the state the reducer holds, and once no further action is dispatched the
\* snapshots under the primary and the backup key both equal that state
C32_EventuallyPersisted ==
    /\ (Pending ~> Persisted)
    /\ <>[](page.mounted /\ ~Pending /\ Persisted)

\* whenever no effect is left to run, storage holds the state
C32_PersistedWhenIdle == page.mounted /\ ~Pending => Persisted

\* a task was created through applyBoardAction and a reply came from the
\* timer; storage holds the board with both
C32_Witness ==
    /\ page.variant = "first"
    /\ budget.creates = 1
    /\ Len(state.messages) >= 2
    /\ state.messages[Len(state.messages)].sender = "teammate"
    /\ state.tasks # <<>> /\ state.tasks[1].id = "7"
    /\ ~Pending /\ Persisted

\* C35: on mount of the board page storage is not overwritten with the
\* initial empty BoardState before the persisted state has been read and
\* applied to the reducer: the first save after mount writes a state that
\* holds every task that was stored
C35_FirstSaveKeepsStored ==
    [][ (~page.mounted /\ page'.mounted)
        => LET stored == loadBoardState(storage, Now).tasks
               saved == loadBoardState(storage', Now).tasks
           IN  /\ storage'.main.k = "text"
               /\ \A i \in 1..Len(stored) : Count(saved, stored[i]) >= 1 ]_vars

\* the same for the first variant of the page alone
C35_FirstVariant ==
    [][ (~page.mounted /\ page'.mounted /\ page.variant = "first")
        => LET stored == loadBoardState(storage, Now).tasks
               saved == loadBoardState(storage', Now).tasks
           IN  /\ storage'.main.k = "text"
               /\ Holds(storage.main)'
               /\ \A i \in 1..Len(stored) : Count(saved, stored[i]) >= 1 ]_vars

\* C33: an edit whose payload id matches no task is a no-op, like move,
\* toggleFavorite and delete on a missing id: it leaves tasks unchanged and
\* adds no activity entry
C33_EditOfMissingIsNoOp ==
    [][ (/\ Dispatched
         /\ last'.type = "edit"
         /\ \A i \in 1..Len(state.tasks) : state.tasks[i].id # last'.payload.id)
        => /\ state'.tasks = state.tasks
           /\ state'.activity = state.activity ]_vars

\* the part about tasks alone
C33_TasksUnchanged ==
    [][ (/\ Dispatched
         /\ last'.type = "edit"
         /\ \A i \in 1..Len(state.tasks) : state.tasks[i].id # last'.payload.id)
        => state'.tasks = state.tasks ]_vars

\* move, toggleFavorite and delete on a missing id change neither
C33_OthersAreNoOps ==
    [][ (/\ Dispatched
         /\ last'.type \in {"move", "toggleFavorite", "delete"}
         /\ \A i \in 1..Len(state.tasks) : state.tasks[i].id # last'.payload.id)
        => /\ state'.tasks = state.tasks
           /\ state'.activity = state.activity ]_vars

\* the pairs of positions that hold the same task before and after a step
\* that removes none: a create puts its task in front of them
SamePlaces ==
    { <<i, i + Len(state'.tasks) - Len(state.tasks)>> : i \in 1..Len(state.tasks) }

\* the step has changed the status of the task at these places
StatusChanged(place) ==
    /\ state'.tasks[place[2]].id = state.tasks[place[1]].id
    /\ state'.tasks[place[2]].status # state.tasks[place[1]].status

\* the entry the step has prepended, if it has
Prepended(entry) ==
    /\ state'.activity # <<>>
    /\ state'.activity[1] = entry
    /\ entry.id = randomUUID(uuid') /\ uuid' > uuid

\* a step that removes tasks leaves the others as they were
RemovalKeepsRest ==
    Len(state'.tasks) < Len(state.tasks)
    => \A j \in 1..Len(state'.tasks) : Count(state.tasks, state'.tasks[j]) >= 1

\* C34, as stated: whenever a task present in two consecutive states has a
\* different status in the second one, the transition prepended a 'moved'
\* activity entry for that task, also when the status was changed through the
\* edit form
C34_StatusChangeIsMove ==
    [][ /\ RemovalKeepsRest
        /\ Len(state'.tasks) >= Len(state.tasks)
           => \A place \in SamePlaces :
                 StatusChanged(place)
                 => \E entry \in {state'.activity[k] : k \in 1..Len(state'.activity)} :
                       /\ Prepended(entry)
                       /\ entry.action = "moved"
                       /\ \E j \in 1..Len(state.tasks) :
                             /\ state.tasks[j].id = state.tasks[place[1]].id
                             /\ entry.taskTitle = state.tasks[j].title ]_vars

\* C34, amended: whenever a task present in two consecutive states has a
\* different status in the second one, the transition was a move that
\* prepended a 'moved' entry for that task, or an edit that prepended an
\* 'edited' entry with the edited task's title: a status changed through the
\* edit form is recorded as an edit
C34_StatusChangeIsLogged ==
    [][ /\ RemovalKeepsRest
        /\ Len(state'.tasks) >= Len(state.tasks)
           => \A place \in SamePlaces :
                 StatusChanged(place)
                 => \E entry \in {state'.activity[k] : k \in 1..Len(state'.activity)} :
                       /\ Prepended(entry)
                       /\ \/ /\ last'.type = "move"
                             /\ entry.action = "moved"
                             /\ \E j \in 1..Len(state.tasks) :
                                   /\ state.tasks[j].id = state.tasks[place[1]].id
                                   /\ entry.taskTitle = state.tasks[j].title
                          \/ /\ last'.type = "edit"
                             /\ entry.action = "edited"
                             /\ entry.taskTitle = state'.tasks[place[2]].title ]_vars

\* the board of two tasks was loaded and the first, a todo task, saved as
\* done from the edit form: the log starts with an 'edited' entry
C34_Witness ==
    /\ last.type = "edit" /\ last.payload.id = "1" /\ last.payload.status = "done"
    /\ Steps = 1
    /\ Len(state.tasks) = 2 /\ state.tasks[2].id = "2"
    /\ state.tasks[1].status = "done"
    /\ state.activity # <<>> /\ state.activity[1].action = "edited"

\* C36: a task that was deleted (or a board that was reset) and whose
\* resulting state was saved does not reappear at the next loadBoardState,
\* also when the save wrote the primary key and failed on the backup key, so
\* that the backup still holds an older snapshot with more tasks
C36_DeletedStaysDeleted ==
    last.type = "reload" /\ last.saved
    => \A i \in 1..Len(state.tasks) : Count(last.before, state.tasks[i]) >= 1

\* the same when the save wrote both keys, or no older snapshot is under the
\* backup key
C36_BothKeysWritten ==
    last.type = "reload" /\ last.saved /\ (last.backup \/ storage.backup.k # "text")
    => state.tasks = last.before

\* C37: while settings.showCompleted is false no task with status done is in
\* the section-scoped list of any section, so the done column is empty;
\* setting showCompleted back to true makes the same tasks appear again,
\* without any change to tasks
C37_CompletedHidden ==
    call.fn = "toggleShowCompleted"
    => /\ ~result.boards[2].settings.showCompleted
       /\ \A i \in 1..Len(result.lists[2]) : result.lists[2][i].status # "done"
       /\ result.columns[2]["done"] = <<>>
       /\ result.lists[2] = SelectSeq(result.lists[1], LAMBDA task : task.status # "done")
       /\ result.boards[3].settings.showCompleted
       /\ result.lists[3] = result.lists[1]
       /\ result.columns[3] = result.columns[1]
       /\ result.boards[2].tasks = call.tasks
       /\ result.boards[3].tasks = call.tasks

\* a board with a done favorite and two more tasks under 'favorites': the
\* done task leaves the list and its column, and is back afterwards
C37_Witness ==
    /\ call.fn = "toggleShowCompleted"
    /\ call.activeSection = "favorites"
    /\ Len(call.tasks) = 3
    /\ Len(result.columns[1]["done"]) = 1
    /\ Len(result.lists[1]) = 2
    /\ Len(result.lists[2]) = 1
    /\ result.columns[3]["done"] = result.columns[1]["done"]

\* C38: every task put on the board through the create form, the edit form
\* or scheduleMeeting has a title that is non-empty after trimming, so under
\* any sequence of these operations starting from an empty board no task ever
\* has an empty title
C38_TitlesNonEmpty ==
    /\ [][ (Dispatched /\ last'.type \in {"create", "edit"})
           => /\ Trim(last'.payload.title) # ""
              /\ \E i \in 1..Len(state'.tasks) : state'.tasks[i] = last'.payload ]_vars
    /\ (state.tasks = <<>> /\ storage = NoStorage)
       => [](\A i \in 1..Len(state.tasks) : Trim(state.tasks[i].title) # "")

\* on the empty board a task was created from the form and a meeting
\* scheduled with no title: it is called 'Project Meeting'
C38_Witness ==
    /\ Len(state.tasks) = 2
    /\ state.tasks[1].title = "Project Meeting"
    /\ state.tasks[2].title = "Write docs"
    /\ Len(state.activity) = 2
    /\ budget.creates = 2

====
